---- MODULE Spec2Model ----
(***************************************************************************)
(* Model of Luau's BytecodeBuilder                                         *)
(* (src/dependencies/luau/Compiler/src/BytecodeBuilder.cpp): the           *)
(* instruction stream of the open function, the jump records with          *)
(* patchJumpD / patchSkipC / foldJumps / expandJumps, and the per-function *)
(* constant pool.                                                          *)
(*                                                                         *)
(* Representation.  The limits of the code are 2^15 (D field), 2^23 (jump  *)
(* distance, constant count), so the vectors of the builder are kept       *)
(* run-length encoded: a run stands for n consecutive equal elements that  *)
(* n consecutive calls of the same method pushed.  At(rs, p) and Size(rs)  *)
(* give back the element at a position and the vector's length.  A word is *)
(* the record of its four bytes (op, a, b, c); D is the signed 16-bit      *)
(* value of (b, c) and E the signed 24-bit value of (a, b, c).             *)
(*                                                                         *)
(* LUAU_ASSERTs on the arguments of a call are the call's precondition     *)
(* (guards).  An assertion on the builder's own work, or a read outside a  *)
(* vector, sets fault, and nothing runs after it.                          *)
(***************************************************************************)
EXTENDS Integers, Sequences, FiniteSets, TLC

VARIABLES
    functions,        \* std::vector<Function> functions, as records of the fields
    currentFunction,  \* uint32_t currentFunction, NoFunction for ~0u
    insns,            \* std::vector<uint32_t> insns, as runs
    lines,            \* std::vector<int> lines, as runs
    debugLine,        \* int debugLine
    jumps,            \* std::vector<Jump> jumps, as runs of records
    hasLongJumps,     \* bool hasLongJumps
    constants,        \* std::vector<Constant> constants, as runs
    constantMap,      \* DenseHashMap<ConstantKey, int32_t> constantMap, as runs
    stringTable,      \* DenseHashMap<StringRef, unsigned> stringTable
    tableShapes,      \* std::vector<TableShape> tableShapes
    tableShapeMap,    \* DenseHashMap<TableShape, int32_t> tableShapeMap
    protos,           \* std::vector<uint32_t> protos, as runs of consecutive ids
    protoMap,         \* DenseHashMap<uint32_t, int16_t> protoMap, as runs
    debugLocals,      \* std::vector<DebugLocal> debugLocals
    debugUpvals,      \* std::vector<DebugUpval> debugUpvals
    userdataTypes,    \* std::vector<UserdataType> userdataTypes
    mainFunction,     \* uint32_t mainFunction, NoFunction for ~0u
    bytecode,         \* std::string bytecode
    pc,               \* the caller's place: "closed", "emit", "folded", "expanded"
    fault,            \* "none", or the assertion / out-of-bounds read that stopped the builder
    last              \* the last call: [op, args, ret]

vars == <<functions, currentFunction, insns, lines, debugLine, jumps, hasLongJumps,
          constants, constantMap, stringTable, tableShapes, tableShapeMap, protos,
          protoMap, debugLocals, debugUpvals, userdataTypes, mainFunction, bytecode, pc,
          fault, last>>

jumpVars == <<insns, lines, jumps, hasLongJumps>>
constVars == <<constants, constantMap, stringTable>>
tableVars == <<tableShapes, tableShapeMap>>
protoVars == <<protos, protoMap>>
debugVars == <<debugLocals, debugUpvals>>
blobVars == <<userdataTypes, mainFunction, bytecode>>

-----------------------------------------------------------------------------
(* Program constants *)

kMaxConstantCount == 2^23
kMaxClosureCount == 2^15
kMaxJumpDistance == 2^23
kMaxJumpDistanceConservative == 32767 \div 3

NoFunction == -1

-----------------------------------------------------------------------------
(* Bounds of the model *)

MaxPatchRuns == 2     \* emit calls (each of n equal words) before patchJumpD / patchSkipC
MaxFoldRuns == 4      \* emit calls before foldJumps
MaxExpandRuns == 3    \* emit calls before expandJumps
MaxJumps == 2         \* patchJumpD calls (single or repeated) that record jumps
MaxConstRuns == 3     \* addConstant calls (single or repeated) that grow the pool
MaxInsns == kMaxJumpDistance + 65536   \* instructions emitted into one function

-----------------------------------------------------------------------------
(* Fixed-width integers *)

Abs(x) == IF x < 0 THEN -x ELSE x

\* uint16_t(x), uint8_t(x) and the low 24 bits of uint32_t(x)
U16(x) == x % 65536
U8(x) == x % 256
U24(x) == x % 16777216

\* int16_t(x)
Int16(x) == LET u == U16(x) IN IF u >= 32768 THEN u - 65536 ELSE u

\* the 24-bit field read back as a signed value (int32_t(insn) >> 8)
Int24(x) == LET u == U24(x) IN IF u >= 8388608 THEN u - 16777216 ELSE u

RECURSIVE BitOr(_, _)
BitOr(x, y) ==
    IF x = 0 THEN y
    ELSE IF y = 0 THEN x
    ELSE (IF x % 2 = 1 \/ y % 2 = 1 THEN 1 ELSE 0) + 2 * BitOr(x \div 2, y \div 2)

RECURSIVE BitXor(_, _)
BitXor(x, y) ==
    IF x = 0 THEN y
    ELSE IF y = 0 THEN x
    ELSE (IF x % 2 # y % 2 THEN 1 ELSE 0) + 2 * BitXor(x \div 2, y \div 2)

\* an unsigned int of 32 bits, as its two halves of 16 bits
W32(hi, lo) == [hi |-> hi, lo |-> lo]

\* the values of an unsigned int; the loops below take the value of their unsigned int
\* at every turn
UInt32 == [hi : 0..65535, lo : 0..65535]

\* x + y, x - y, x ^ y and x | y of two unsigned ints, modulo 2^32
Add32(x, y) == W32((x.hi + y.hi + (x.lo + y.lo) \div 65536) % 65536, (x.lo + y.lo) % 65536)
Sub32(x, y) == W32((x.hi - y.hi + (x.lo - y.lo) \div 65536) % 65536, (x.lo - y.lo) % 65536)
Xor32(x, y) == W32(BitXor(x.hi, y.hi), BitXor(x.lo, y.lo))
Or32(x, y) == W32(BitOr(x.hi, y.hi), BitOr(x.lo, y.lo))

\* x << s and x >> s of an unsigned int, 0 < s < 32
Shl32(x, s) ==
    IF s < 16 THEN W32((x.hi * 2^s + x.lo \div 2^(16 - s)) % 65536, (x.lo * 2^s) % 65536)
    ELSE W32((x.lo * 2^(s - 16)) % 65536, 0)
Shr32(x, s) ==
    IF s < 16 THEN W32(x.hi \div 2^s, x.lo \div 2^s + (x.hi % 2^s) * 2^(16 - s))
    ELSE W32(0, x.hi \div 2^(s - 16))

\* the unsigned int x as a number, from 2^31 on the negative number with the same 32 bits
Int32(x) == (IF x.hi >= 32768 THEN x.hi - 65536 ELSE x.hi) * 65536 + x.lo

-----------------------------------------------------------------------------
(* Instruction words *)

\* uint32_t(op) | (a << 8) | (b << 16) | (c << 24)
Word(op, a, b, c) == [op |-> op, a |-> a, b |-> b, c |-> c]

\* uint32_t(op) | (a << 8) | (uint16_t(d) << 16)
WordAD(op, a, d) == Word(op, a, U16(d) % 256, U16(d) \div 256)

\* uint32_t(op) | (uint32_t(e) << 8)
WordE(op, e) == Word(op, U24(e) % 256, (U24(e) \div 256) % 256, U24(e) \div 65536)

INSN_OP(w) == w.op
INSN_C(w) == w.c
INSN_D(w) == Int16(w.b + 256 * w.c)
INSN_E(w) == Int24(w.a + 256 * w.b + 65536 * w.c)

\* insn |= uint16_t(d) << 16
OrD(w, d) ==
    LET u == BitOr(w.b + 256 * w.c, U16(d))
    IN  [w EXCEPT !.b = u % 256, !.c = u \div 256]

\* insn &= 0xffff; insn |= uint16_t(d) << 16
SetD(w, d) == OrD([w EXCEPT !.b = 0, !.c = 0], d)

\* insn |= offset << 24
OrC(w, c) == [w EXCEPT !.c = BitOr(w.c, U8(c))]

isJumpD(op) ==
    op \in {"JUMP", "JUMPIF", "JUMPIFNOT", "JUMPIFEQ", "JUMPIFLE", "JUMPIFLT",
            "JUMPIFNOTEQ", "JUMPIFNOTLE", "JUMPIFNOTLT", "FORNPREP", "FORNLOOP",
            "FORGPREP", "FORGLOOP", "FORGPREP_INEXT", "FORGPREP_NEXT", "JUMPBACK",
            "JUMPXEQKNIL", "JUMPXEQKB", "JUMPXEQKN", "JUMPXEQKS"}

isSkipC(op) == op \in {"LOADB"}

isFastCall(op) == op \in {"FASTCALL", "FASTCALL1", "FASTCALL2", "FASTCALL2K", "FASTCALL3"}

\* getOpLength: 2 for the opcodes that read insns[i + 1] as their auxiliary word
getOpLength(op) ==
    IF op \in {"GETGLOBAL", "SETGLOBAL", "GETIMPORT", "GETTABLEKS", "SETTABLEKS",
               "NAMECALL", "JUMPIFEQ", "JUMPIFLE", "JUMPIFLT", "JUMPIFNOTEQ",
               "JUMPIFNOTLE", "JUMPIFNOTLT", "NEWTABLE", "SETLIST", "FORGLOOP",
               "LOADKX", "FASTCALL2", "FASTCALL2K", "FASTCALL3", "JUMPXEQKNIL",
               "JUMPXEQKB", "JUMPXEQKN", "JUMPXEQKS"}
    THEN 2 ELSE 1

-----------------------------------------------------------------------------
(* Jump records and the remap table of expandJumps.                         *)
(* A record [source, target, n] stands for the n records                    *)
(* (source + i, target + i), i = 0 .. n-1, that n calls of patchJumpD on    *)
(* consecutive labels pushed.                                               *)

JumpRec(source, target, n) == [source |-> source, target |-> target, n |-> n]

\* abs(offset) > kMaxJumpDistanceConservative
IsLongJump(jump) == Abs(jump.target - jump.source - 1) > kMaxJumpDistanceConservative

Clamp(x, lo, hi) == IF x < lo THEN lo ELSE IF x > hi THEN hi ELSE x

\* trampolines the first pass has pushed when it copies old position i:
\* one for every record with a long offset and source <= i
RECURSIVE TrampsUpTo(_, _, _)
TrampsUpTo(js, k, i) ==
    IF k = 0 THEN 0
    ELSE TrampsUpTo(js, k - 1, i)
         + (IF IsLongJump(js[k]) THEN Clamp(i - js[k].source + 1, 0, js[k].n) ELSE 0)

\* Remap with one word for a trampoline
RemapOneWord(js, i) == i + TrampsUpTo(js, Len(js), i)

\* remap[i] = newinsns.size() when insns[i] is copied
Remap(js, i) == i + 2 * TrampsUpTo(js, Len(js), i)

\* int newoffset = int(remap[jump.target]) - int(remap[jump.source]) - 1
NewOffset(js, source, target) == Remap(js, target) - Remap(js, source) - 1

\* the offset the second pass stores in JUMPX: uint32_t(newoffset + 1) << 8
JumpXOffset(newoffset) == U24(newoffset + 1)

-----------------------------------------------------------------------------
(* Run-length encoded vectors of words.                                     *)
(* [k = "rep", w, n]: n copies of w.                                        *)
(* [k = "tramp", w, n, v]: the n trampolines JUMP +1, JUMPX, w that          *)
(* expandJumps writes for the n long jumps of the record v.source,          *)
(* v.target, with the offsets of JUMPX computed from the remap table of the *)
(* sorted records v.jumps.                                                  *)

Rep(w, n) == [k |-> "rep", w |-> w, n |-> n, v |-> <<>>]
Tramp(w, n, v) == [k |-> "tramp", w |-> w, n |-> n, v |-> v]

RunLen(r) == IF r.k = "tramp" THEN 3 * r.n ELSE r.n

RECURSIVE SumLen(_, _)
SumLen(rs, i) == IF i = 0 THEN 0 ELSE SumLen(rs, i - 1) + RunLen(rs[i])

\* insns.size()
Size(rs) == SumLen(rs, Len(rs))

\* first position of run i
Base(rs, i) == SumLen(rs, i - 1)

RunIndex(rs, p) ==
    CHOOSE i \in 1..Len(rs) : Base(rs, i) <= p /\ p < Base(rs, i) + RunLen(rs[i])

\* LOP_JUMP | (1 << 16) and LOP_JUMPX with its E field
JumpPlusOne == Word("JUMP", 0, 1, 0)
JumpX(e) == WordE("JUMPX", e)

RunWord(r, q) ==
    IF r.k = "rep" THEN r.w
    ELSE IF q % 3 = 0 THEN JumpPlusOne
    ELSE IF q % 3 = 1
         THEN JumpX(JumpXOffset(NewOffset(r.v.jumps, r.v.source + (q \div 3),
                                          r.v.target + (q \div 3))))
    ELSE r.w

\* insns[p]
At(rs, p) == LET i == RunIndex(rs, p) IN RunWord(rs[i], p - Base(rs, i))

\* drop the empty runs
RECURSIVE Normalize(_)
Normalize(rs) ==
    IF Len(rs) = 0 THEN rs
    ELSE IF rs[1].n = 0 THEN Normalize(Tail(rs))
    ELSE <<rs[1]>> \o Normalize(Tail(rs))

\* the one encoding of a vector in which no two neighbouring runs hold the same word:
\* two encodings are the same vector exactly if their Canon is equal
RECURSIVE Canon(_)
Canon(rs) ==
    IF Len(rs) = 0 THEN rs
    ELSE IF rs[1].n = 0 THEN Canon(Tail(rs))
    ELSE IF Len(rs) = 1 THEN rs
    ELSE IF rs[2].n = 0 THEN Canon(<<rs[1]>> \o Tail(Tail(rs)))
    ELSE IF rs[1].k = "rep" /\ rs[2].k = "rep" /\ rs[1].w = rs[2].w
         THEN Canon(<<Rep(rs[1].w, rs[1].n + rs[2].n)>> \o Tail(Tail(rs)))
    ELSE <<rs[1]>> \o Canon(Tail(rs))

\* n times push_back(w)
PushBack(rs, w, n) == Normalize(rs \o <<Rep(w, n)>>)

\* positions a .. b-1 of rs (runs cut at a and b); rs holds "rep" runs only
RECURSIVE SliceFrom(_, _, _, _)
SliceFrom(rs, i, a, b) ==
    IF i > Len(rs) THEN <<>>
    ELSE LET lo == Base(rs, i)
             hi == lo + RunLen(rs[i])
             from == IF a > lo THEN a ELSE lo
             to == IF b < hi THEN b ELSE hi
         IN  (IF from < to THEN <<Rep(rs[i].w, to - from)>> ELSE <<>>)
             \o SliceFrom(rs, i + 1, a, b)

Slice(rs, a, b) == SliceFrom(rs, 1, a, b)

\* insns[p .. p+n-1] = w
SetRange(rs, p, n, w) ==
    Normalize(Slice(rs, 0, p) \o <<Rep(w, n)>> \o Slice(rs, p + n, Size(rs)))

\* positions p .. p+n-1 lie in one run of equal words
InOneRun(rs, p, n) ==
    /\ n >= 1 /\ 0 <= p /\ p + n <= Size(rs)
    /\ RunIndex(rs, p) = RunIndex(rs, p + n - 1)
    /\ rs[RunIndex(rs, p)].k = "rep"

-----------------------------------------------------------------------------
(* The builder *)

Call(op, args, ret) == [op |-> op, args |-> args, ret |-> ret]

Init ==
    /\ functions = <<>>
    /\ currentFunction = NoFunction
    /\ insns = <<>>
    /\ lines = <<>>
    /\ debugLine = 0
    /\ jumps = <<>>
    /\ hasLongJumps = FALSE
    /\ constants = <<>>
    /\ constantMap = <<>>
    /\ stringTable = [value \in {} |-> 0]
    /\ tableShapes = <<>>
    /\ tableShapeMap = <<>>
    /\ protos = <<>>
    /\ protoMap = <<>>
    /\ debugLocals = <<>>
    /\ debugUpvals = <<>>
    /\ userdataTypes = <<>>
    /\ mainFunction = NoFunction
    /\ bytecode = <<>>
    /\ pc = "closed"
    /\ fault = "none"
    /\ last = Call("init", <<>>, 0)

Running == fault = "none"

\* a Function as beginFunction pushes it: func.numparams = numparams,
\* func.isvararg = isvararg, the other fields as the struct initializes them
NewFunction(numparams, isvararg) ==
    [maxstacksize |-> 0, numparams |-> numparams, numupvalues |-> 0, isvararg |-> isvararg,
     debugname |-> 0, debuglinedefined |-> 0, data |-> <<>>]

\* NextFunctionId counting from one: what C14 tells from NextFunctionId
NextFunctionIdFromOne(fs) == Len(fs) + 1

\* uint32_t id = uint32_t(functions.size())
NextFunctionId(fs) == Len(fs)

\* NoOpenFunction taken for granted: what C15 tells from NoOpenFunction
NoOpenFunctionAssumed == TRUE

\* LUAU_ASSERT(currentFunction == ~0u)
NoOpenFunction == currentFunction = NoFunction

\* uint32_t beginFunction(uint8_t numparams, bool isvararg)
BeginFunction(numparams, isvararg) ==
    /\ Running
    /\ IF NoOpenFunction
       THEN /\ functions' = Append(functions, NewFunction(numparams, isvararg))
            /\ currentFunction' = NextFunctionId(functions)
            /\ hasLongJumps' = FALSE
            /\ debugLine' = 0
            /\ pc' = "emit"
            /\ last' = Call("beginFunction", <<numparams, isvararg>>,
                            NextFunctionId(functions))
            /\ UNCHANGED fault
       ELSE /\ fault' = "beginFunction: currentFunction == ~0u"
            /\ last' = Call("beginFunction", <<numparams, isvararg>>, NoFunction)
            /\ UNCHANGED <<functions, currentFunction, hasLongJumps, debugLine, pc>>
    /\ UNCHANGED <<insns, lines, jumps, constVars, tableVars, protoVars, debugVars, blobVars>>

\* n calls in a row that push the word w: insns.push_back(insn); lines.push_back(debugLine)
EmitWord(name, w, n) ==
    /\ Running /\ pc = "emit"
    /\ Size(insns) + n <= MaxInsns
    /\ Len(insns) > 0 => insns[Len(insns)].w # w    \* a repeated word is one call with a larger n
    /\ insns' = PushBack(insns, w, n)
    /\ lines' = PushBack(lines, debugLine, n)
    /\ last' = Call(name, <<w, n>>, 0)
    /\ UNCHANGED <<functions, currentFunction, debugLine, jumps, hasLongJumps,
                   constVars, tableVars, protoVars, debugVars, blobVars, pc, fault>>

emitABC(op, a, b, c, n) == EmitWord("emitABC", Word(op, a, b, c), n)
emitAD(op, a, d, n) == EmitWord("emitAD", WordAD(op, a, d), n)
emitE(op, e, n) == EmitWord("emitE", WordE(op, e), n)
emitAux(aux, n) == EmitWord("emitAux", aux, n)

\* JumpLong with the distance 2^23 itself allowed: what C6 tells from JumpLong
JumpLongInclusive(offset) ==
    ~(Int16(offset) = offset) /\ Abs(offset) <= kMaxJumpDistance

\* PatchedJump with only the low byte of the offset stored: what C4 tells from PatchedJump
PatchedJumpByte(w, offset) ==
    IF Int16(offset) = offset THEN OrD(w, U8(offset)) ELSE w

\* the three outcomes of patchJumpD for offset = targetLabel - jumpLabel - 1
JumpFits(offset) == Int16(offset) = offset
JumpLong(offset) == ~JumpFits(offset) /\ Abs(offset) < kMaxJumpDistance

\* the word patchJumpD leaves at jumpLabel
PatchedJump(w, offset) == IF JumpFits(offset) THEN OrD(w, offset) ELSE w

\* bool patchJumpD(size_t jumpLabel, size_t targetLabel), called for
\* (jumpLabel + i, targetLabel + i), i = 0 .. n-1
patchJumpDResult(jumpLabel, targetLabel, n) ==
    LET offset == targetLabel - jumpLabel - 1
        w == At(insns, jumpLabel)
        ok == JumpFits(offset) \/ JumpLong(offset)
    IN  [ret |-> ok,
         insns |-> IF ok THEN SetRange(insns, jumpLabel, n, PatchedJump(w, offset)) ELSE insns,
         hasLongJumps |-> IF JumpLong(offset) THEN TRUE ELSE hasLongJumps,
         jumps |-> IF ok THEN Append(jumps, JumpRec(jumpLabel, targetLabel, n)) ELSE jumps]

patchJumpDPre(jumpLabel, targetLabel, n) ==
    /\ InOneRun(insns, jumpLabel, n)
    /\ isJumpD(INSN_OP(At(insns, jumpLabel)))
    /\ INSN_D(At(insns, jumpLabel)) = 0
    /\ 0 <= targetLabel /\ targetLabel + n - 1 <= Size(insns)

patchJumpD(jumpLabel, targetLabel, n) ==
    /\ Running /\ pc = "emit"
    /\ patchJumpDPre(jumpLabel, targetLabel, n)
    /\ n > 1 => JumpLong(targetLabel - jumpLabel - 1)
    /\ Len(jumps) < MaxJumps
    /\ LET r == patchJumpDResult(jumpLabel, targetLabel, n)
       IN  /\ insns' = r.insns
           /\ hasLongJumps' = r.hasLongJumps
           /\ jumps' = r.jumps
           /\ last' = Call("patchJumpD", <<jumpLabel, targetLabel, n>>, r.ret)
    /\ UNCHANGED <<functions, currentFunction, lines, debugLine, constVars,
                   tableVars, protoVars, debugVars, blobVars, pc, fault>>

\* patchSkipCResult with the test offset > 256 for uint8_t(offset) != offset:
\* what C7 tells from patchSkipCResult
patchSkipCWide(jumpLabel, targetLabel) ==
    LET offset == targetLabel - jumpLabel - 1
        w == At(insns, jumpLabel)
    IN  IF offset < 0 \/ offset > 256
        THEN [ret |-> FALSE, insns |-> insns]
        ELSE [ret |-> TRUE, insns |-> SetRange(insns, jumpLabel, 1, OrC(w, offset))]

\* bool patchSkipC(size_t jumpLabel, size_t targetLabel)
patchSkipCResult(jumpLabel, targetLabel) ==
    LET offset == targetLabel - jumpLabel - 1
        w == At(insns, jumpLabel)
    IN  IF U8(offset) # offset
        THEN [ret |-> FALSE, insns |-> insns]
        ELSE [ret |-> TRUE, insns |-> SetRange(insns, jumpLabel, 1, OrC(w, offset))]

patchSkipCPre(jumpLabel, targetLabel) ==
    /\ 0 <= jumpLabel /\ jumpLabel < Size(insns)
    /\ isSkipC(INSN_OP(At(insns, jumpLabel))) \/ isFastCall(INSN_OP(At(insns, jumpLabel)))
    /\ INSN_C(At(insns, jumpLabel)) = 0
    /\ 0 <= targetLabel

patchSkipC(jumpLabel, targetLabel) ==
    /\ Running /\ pc = "emit"
    /\ patchSkipCPre(jumpLabel, targetLabel)
    /\ LET r == patchSkipCResult(jumpLabel, targetLabel)
       IN  /\ insns' = r.insns
           /\ last' = Call("patchSkipC", <<jumpLabel, targetLabel>>, r.ret)
    /\ UNCHANGED <<functions, currentFunction, lines, debugLine, jumps, hasLongJumps,
                   constVars, tableVars, protoVars, debugVars, blobVars, pc, fault>>

-----------------------------------------------------------------------------
(* foldJumps *)

\* the while loop of foldJumps: follow forward unconditional jumps from targetLabel;
\* -1 when LUAU_ASSERT(targetLabel < insns.size()) fails
RECURSIVE FollowJumps(_, _)
FollowJumps(ins, targetLabel) ==
    IF targetLabel < 0 \/ targetLabel >= Size(ins) THEN -1
    ELSE LET targetInsn == At(ins, targetLabel)
         IN  IF INSN_OP(targetInsn) = "JUMP" /\ INSN_D(targetInsn) >= 0
             THEN FollowJumps(ins, targetLabel + 1 + INSN_D(targetInsn))
             ELSE targetLabel

\* the word foldJumps leaves at jumpLabel
FoldedInsn(jumpInsn, targetInsn, offset) ==
    IF INSN_OP(jumpInsn) = "JUMP" /\ INSN_OP(targetInsn) = "RETURN" THEN targetInsn
    ELSE IF Int16(offset) = offset THEN SetD(jumpInsn, offset)
    ELSE jumpInsn

\* the body of for (Jump& jump : jumps), from the k-th record on
RECURSIVE FoldFrom(_, _, _)
FoldFrom(ins, js, k) ==
    IF k > Len(js) THEN [insns |-> ins, jumps |-> js, fault |-> "none"]
    ELSE LET jumpLabel == js[k].source
             jumpInsn == At(ins, jumpLabel)
             targetLabel == FollowJumps(ins, jumpLabel + 1 + INSN_D(jumpInsn))
         IN  IF targetLabel < 0
             THEN [insns |-> ins, jumps |-> js, fault |-> "foldJumps: targetLabel < insns.size()"]
             ELSE LET targetInsn == At(ins, targetLabel)
                      offset == targetLabel - jumpLabel - 1
                  IN  FoldFrom(SetRange(ins, jumpLabel, 1, FoldedInsn(jumpInsn, targetInsn, offset)),
                               [js EXCEPT ![k].target = targetLabel], k + 1)

\* foldJumpsResult without the test of hasLongJumps: what C29 tells from
\* foldJumpsResult
foldJumpsAlways == FoldFrom(insns, jumps, 1)

\* the insns and jumps foldJumps leaves
foldJumpsResult ==
    IF hasLongJumps THEN [insns |-> insns, jumps |-> jumps, fault |-> "none"]
    ELSE FoldFrom(insns, jumps, 1)

\* void foldJumps()
foldJumps ==
    /\ Running /\ pc = "emit"
    /\ LET r == foldJumpsResult
       IN  /\ insns' = r.insns
           /\ jumps' = r.jumps
           /\ fault' = r.fault
    /\ pc' = "folded"
    /\ last' = Call("foldJumps", <<>>, 0)
    /\ UNCHANGED <<functions, currentFunction, lines, debugLine, hasLongJumps, constVars,
                   tableVars, protoVars, debugVars, blobVars>>

\* the condition of the while loop without the test of the offset
IsAnyJump(targetInsn) == INSN_OP(targetInsn) = "JUMP"

\* while (LUAU_INSN_OP(targetInsn) == LOP_JUMP && LUAU_INSN_D(targetInsn) >= 0)
IsForwardJump(targetInsn) ==
    INSN_OP(targetInsn) = "JUMP" /\ INSN_D(targetInsn) >= 0

\* foldJumps step by step: pc is "folding" inside the body of for (Jump& jump : jumps)
\* and the arguments of last are the number k of the record, targetLabel and the turns
\* of the while loop taken for the record
FoldAt(k, targetLabel, turns) == Call("foldJumps", <<k, targetLabel, turns>>, 0)

\* the top of the body for the k-th record of js: the end of foldJumps after the last
\* record, otherwise targetLabel = jumpLabel + 1 + D and LUAU_ASSERT(targetLabel <
\* insns.size())
FoldTurn(ins, js, k) ==
    IF k > Len(js)
    THEN [pc |-> "folded", fault |-> "none", last |-> Call("foldJumps", <<>>, 0)]
    ELSE IF js[k].source + 1 + INSN_D(At(ins, js[k].source)) \in 0..(Size(ins) - 1)
    THEN [pc |-> "folding", fault |-> "none",
          last |-> FoldAt(k, js[k].source + 1 + INSN_D(At(ins, js[k].source)), 0)]
    ELSE [pc |-> "folded", fault |-> "foldJumps: targetLabel < insns.size()",
          last |-> Call("foldJumps", <<>>, 0)]

\* the call of foldJumps up to the first record
foldJumpsEnter ==
    /\ Running /\ pc = "emit"
    /\ LET t == FoldTurn(insns, jumps, IF hasLongJumps THEN Len(jumps) + 1 ELSE 1)
       IN  /\ pc' = t.pc
           /\ fault' = t.fault
           /\ last' = t.last
    /\ UNCHANGED <<functions, currentFunction, insns, lines, debugLine, jumps,
                   hasLongJumps, constVars, tableVars, protoVars, debugVars, blobVars>>

\* one turn of the while loop
foldJumpsFollow ==
    /\ Running /\ pc = "folding"
    /\ IsForwardJump(At(insns, last.args[2]))
    /\ LET targetLabel == last.args[2] + 1 + INSN_D(At(insns, last.args[2]))
       IN  IF targetLabel < Size(insns)
           THEN /\ last' = FoldAt(last.args[1], targetLabel, last.args[3] + 1)
                /\ UNCHANGED <<pc, fault>>
           ELSE /\ last' = Call("foldJumps", <<>>, 0)
                /\ pc' = "folded"
                /\ fault' = "foldJumps: targetLabel < insns.size()"
    /\ UNCHANGED <<functions, currentFunction, insns, lines, debugLine, jumps,
                   hasLongJumps, constVars, tableVars, protoVars, debugVars, blobVars>>

\* the rest of the body for the k-th record after the while loop has ended at
\* targetLabel: the insns and jumps it leaves
FoldStore(k, targetLabel) ==
    [insns |-> SetRange(insns, jumps[k].source, 1,
                        FoldedInsn(At(insns, jumps[k].source), At(insns, targetLabel),
                                   targetLabel - jumps[k].source - 1)),
     jumps |-> [jumps EXCEPT ![k].target = targetLabel]]

\* the rest of the body after the while loop, up to the next record
foldJumpsStore ==
    /\ Running /\ pc = "folding"
    /\ ~IsForwardJump(At(insns, last.args[2]))
    /\ \E r \in {FoldStore(last.args[1], last.args[2])} :
         \E t \in {FoldTurn(r.insns, r.jumps, last.args[1] + 1)} :
            /\ insns' = r.insns
            /\ jumps' = r.jumps
            /\ pc' = t.pc
            /\ fault' = t.fault
            /\ last' = t.last
    /\ UNCHANGED <<functions, currentFunction, lines, debugLine, hasLongJumps, constVars,
                   tableVars, protoVars, debugVars, blobVars>>

-----------------------------------------------------------------------------
(* expandJumps *)

\* std::sort(jumps.begin(), jumps.end(), lhs.source < rhs.source)
SortJumps(js) == SortSeq(js, LAMBDA x, y : x.source < y.source)

\* words of run i that are auxiliary words of an instruction begun in an earlier run
RECURSIVE CarryInto(_, _)
CarryInto(rs, i) ==
    IF i = 1 THEN 0
    ELSE IF getOpLength(INSN_OP(rs[i - 1].w)) = 1 THEN 0
    ELSE (rs[i - 1].n - CarryInto(rs, i - 1)) % 2

\* position p is one the loop "for (i = 0; i < insns.size();) ... i += oplen" stops at
IsInsnStart(rs, p) ==
    LET i == RunIndex(rs, p)
        q == p - Base(rs, i) - CarryInto(rs, i)
    IN  q >= 0 /\ (getOpLength(INSN_OP(rs[i].w)) = 1 \/ q % 2 = 0)

\* the first pass reaches the source of every record: LUAU_ASSERT(currentJump == jumps.size())
AllJumpsMatched(rs, js) ==
    \A k \in 1..Len(js) :
        /\ IsInsnStart(rs, js[k].source)
        /\ js[k].n > 1 => /\ InOneRun(rs, js[k].source, js[k].n)
                          /\ getOpLength(INSN_OP(At(rs, js[k].source))) = 1
        /\ k < Len(js) => js[k].source + js[k].n <= js[k + 1].source

\* the offset the second pass stores in a jump it does not expand
RepatchedOffset(newoffset) == U16(newoffset)

\* what the two passes leave in newinsns for the instructions of one record
ExpandedJump(ins, js, jump) ==
    LET w == At(ins, jump.source)
    IN  IF IsLongJump(jump)
        THEN Tramp(SetD(w, -2), jump.n,
                   [source |-> jump.source, target |-> jump.target, jumps |-> js])
        ELSE Rep(SetD(w, RepatchedOffset(NewOffset(js, jump.source, jump.target))), jump.n)

\* newinsns from old position pos on, js sorted, its records from the k-th on
RECURSIVE ExpandFrom(_, _, _, _)
ExpandFrom(ins, js, k, pos) ==
    IF k > Len(js) THEN Slice(ins, pos, Size(ins))
    ELSE Slice(ins, pos, js[k].source) \o <<ExpandedJump(ins, js, js[k])>>
         \o ExpandFrom(ins, js, k + 1, js[k].source + js[k].n)

\* ExpandLines without the lines of the trampolines: what C17 tells from ExpandLines
ExpandLinesCopied(ls, js, i) == SubSeq(ls, i, Len(ls))

\* newlines: lines[i] once for insns[i] and twice more for a trampoline before it
RECURSIVE ExpandLines(_, _, _)
ExpandLines(ls, js, i) ==
    IF i > Len(ls) THEN <<>>
    ELSE LET lo == Base(ls, i)
             hi == lo + ls[i].n
         IN  <<Rep(ls[i].w, ls[i].n + 2 * (TrampsUpTo(js, Len(js), hi - 1)
                                           - TrampsUpTo(js, Len(js), lo - 1)))>>
             \o ExpandLines(ls, js, i + 1)

\* LUAU_ASSERT(int16_t(newoffset) == newoffset) for every record that is not expanded
RepatchFits(js) ==
    \A k \in 1..Len(js) :
        ~IsLongJump(js[k]) =>
            LET newoffset == NewOffset(js, js[k].source, js[k].target)
            IN  Int16(newoffset) = newoffset

\* the first assertion or out-of-bounds read expandJumps runs into, "none" if none
ExpandFault(ins, js) ==
    IF CarryInto(ins, Len(ins) + 1) # 0
        THEN "expandJumps: insns[i] read past the end"
    ELSE IF ~AllJumpsMatched(ins, js)
        THEN "expandJumps: currentJump == jumps.size()"
    ELSE IF \A k \in 1..Len(js) : ~IsLongJump(js[k])
        THEN "expandJumps: pendingTrampolines > 0"
    ELSE IF \E k \in 1..Len(js) : js[k].target + js[k].n - 1 >= Size(ins)
        THEN "expandJumps: remap[jump.target] read past the end"
    ELSE IF \E k \in 1..Len(js) :
                ~IsLongJump(js[k]) /\ INSN_D(At(ins, js[k].source)) # js[k].target - js[k].source - 1
        THEN "expandJumps: LUAU_INSN_D(insn) == offset"
    ELSE IF ~RepatchFits(js)
        THEN "expandJumps: int16_t(newoffset) == newoffset"
    ELSE "none"

expandJumpsResult ==
    LET js == SortJumps(jumps)
        f == ExpandFault(insns, js)
    IN  IF ~hasLongJumps
        THEN [insns |-> insns, lines |-> lines, jumps |-> jumps, fault |-> "none"]
        ELSE IF f # "none"
        THEN [insns |-> insns, lines |-> lines, jumps |-> js, fault |-> f]
        ELSE [insns |-> Normalize(ExpandFrom(insns, js, 1, 0)),
              lines |-> Normalize(ExpandLines(lines, js, 1)),
              jumps |-> js, fault |-> "none"]

\* void expandJumps()
expandJumps ==
    /\ Running /\ pc \in {"emit", "folded"}
    /\ LET r == expandJumpsResult
       IN  /\ insns' = r.insns
           /\ lines' = r.lines
           /\ jumps' = r.jumps
           /\ fault' = r.fault
    /\ pc' = "expanded"
    /\ last' = Call("expandJumps", <<>>, 0)
    /\ UNCHANGED <<functions, currentFunction, debugLine, hasLongJumps, constVars,
                   tableVars, protoVars, debugVars, blobVars>>

-----------------------------------------------------------------------------
(* The constant pool.                                                       *)
(* The 64-bit fields value and extra of a ConstantKey are kept as four      *)
(* 16-bit limbs, most significant first.  A double is the record of its     *)
(* sign, exponent and fraction (the fraction as limbs of 4, 16, 16, 16      *)
(* bits), a float the record of its sign, exponent and fraction (limbs of   *)
(* 7 and 16 bits).                                                          *)
(* A run [c, n] of the pool stands for the n constants that n calls of      *)
(* addImport on consecutive ids pushed, a run [key, id, n] of the map for   *)
(* their n entries key + i -> id + i.                                       *)

Zero64 == <<0, 0, 0, 0>>

\* uint64_t(x) of a bool or a 32-bit id
U64(x) == <<0, 0, x \div 65536, x % 65536>>

\* memcpy(&k.value, &value, sizeof(value)) of a double
DoubleBits(d) == <<d.sign * 32768 + d.exp * 16 + d.frac[1], d.frac[2], d.frac[3], d.frac[4]>>

\* the 32 bits of a float
FloatBits(f) == <<f.sign * 32768 + f.exp * 128 + f.frac[1], f.frac[2]>>

\* memcpy of two floats into one 64-bit field, the first at the lower address
PackFloats(first, second) == FloatBits(second) \o FloatBits(first)

Constant(type, value) == [type |-> type, value |-> value]
ConstantKey(type, value, extra) == [type |-> type, value |-> value, extra |-> extra]

\* KeyClosure without its own type tag: what C9 tells from KeyClosure
KeyClosureUntyped(fid) == ConstantKey("Boolean", U64(fid), Zero64)

KeyNil == ConstantKey("Nil", Zero64, Zero64)
KeyBoolean(value) == ConstantKey("Boolean", U64(IF value THEN 1 ELSE 0), Zero64)
KeyNumber(value) == ConstantKey("Number", DoubleBits(value), Zero64)
KeyVector(x, y, z, w) == ConstantKey("Vector", PackFloats(x, y), PackFloats(z, w))
KeyString(index) == ConstantKey("String", U64(index), Zero64)
KeyImport(iid) == ConstantKey("Import", U64(iid), Zero64)
KeyClosure(fid) == ConstantKey("Closure", U64(fid), Zero64)

\* the low 32 bits of a field whose bit 31 is clear
Low32(v) == v[4] + 65536 * v[3]

\* constants.size()
RECURSIVE PoolSize(_)
PoolSize(cs) == IF Len(cs) = 0 THEN 0 ELSE cs[1].n + PoolSize(Tail(cs))

\* constants[p] of the pool cs
ConstantAt(cs, p) ==
    LET j == CHOOSE j \in 1..Len(cs) :
                 PoolSize(SubSeq(cs, 1, j - 1)) <= p /\ p < PoolSize(SubSeq(cs, 1, j))
        i == p - PoolSize(SubSeq(cs, 1, j - 1))
    IN  IF i = 0 THEN cs[j].c ELSE Constant(cs[j].c.type, cs[j].c.value + i)

\* ConstantKey::operator==: the type tag and the bits of value and extra
KeyEq(a, b) == a.type = b.type /\ a.value = b.value /\ a.extra = b.extra

\* key is one of the keys of the map's run r
KeyInRun(r, key) ==
    IF r.n = 1 THEN KeyEq(r.key, key)
    ELSE /\ key.type = r.key.type /\ key.extra = r.key.extra
         /\ key.value[1] = r.key.value[1] /\ key.value[2] = r.key.value[2]
         /\ key.value[3] < 32768
         /\ Low32(key.value) - Low32(r.key.value) \in 0..(r.n - 1)

\* constantMap.find(key): the cached id, -1 for nullptr
MapFind(m, key) ==
    IF \E j \in DOMAIN m : KeyInRun(m[j], key)
    THEN LET j == CHOOSE j \in DOMAIN m : KeyInRun(m[j], key)
         IN  IF m[j].n = 1 THEN m[j].id
             ELSE m[j].id + Low32(key.value) - Low32(m[j].key.value)
    ELSE -1

\* none of the n keys key, key + 1, ... is in the map
KeysFree(m, key, n) ==
    /\ key.value[3] < 32768 /\ Low32(key.value) + n < 2^30
    /\ \A j \in DOMAIN m :
          \/ m[j].key.type # key.type
          \/ /\ m[j].key.value[3] < 32768
             /\ \/ Low32(m[j].key.value) + m[j].n <= Low32(key.value)
                \/ Low32(key.value) + n <= Low32(m[j].key.value)

\* PoolFull one entry early: what C10 tells from PoolFull
PoolFullEarly(id) == id >= kMaxConstantCount - 1

\* if (id >= kMaxConstantCount) return -1
PoolFull(id) == id >= kMaxConstantCount

\* int32_t addConstant(const ConstantKey& key, const Constant& value), called for
\* (key + i, value + i), i = 0 .. n-1; ret is what the last of the calls returned
addConstantResult(key, value, n) ==
    LET cached == MapFind(constantMap, key)
        id == PoolSize(constants)
    IN  IF cached >= 0
        THEN [ret |-> cached, constants |-> constants, constantMap |-> constantMap]
        ELSE IF PoolFull(id)
        THEN [ret |-> -1, constants |-> constants, constantMap |-> constantMap]
        ELSE [ret |-> id + n - 1,
              constants |-> Append(constants, [c |-> value, n |-> n]),
              constantMap |-> Append(constantMap, [key |-> key, id |-> id, n |-> n])]

\* the body shared by addConstantNil .. addConstantClosure; strings is the string
\* table the call leaves
addConstant(name, args, key, value, n, strings) ==
    /\ Running
    /\ n > 1 => /\ KeysFree(constantMap, key, n)
                /\ PoolSize(constants) + n <= kMaxConstantCount
    /\ LET r == addConstantResult(key, value, n)
       IN  /\ constants' = r.constants
           /\ constantMap' = r.constantMap
           /\ last' = Call(name, args, r.ret)
    /\ stringTable' = strings
    /\ UNCHANGED <<functions, currentFunction, jumpVars, debugLine,
                   tableVars, protoVars, debugVars, blobVars, pc, fault>>

\* stringTable[value], 0 for a string that is not in the table
StringIndex(table, value) == IF value \in DOMAIN table THEN table[value] ELSE 0

\* addStringTableEntryResult with a new index for every call, present or not: what
\* C12 tells from addStringTableEntryResult
addStringTableEntryFresh(value) ==
    LET size == Cardinality(DOMAIN stringTable) + 1
    IN  [index |-> size,
         stringTable |-> [v \in DOMAIN stringTable \cup {value} |->
                             IF v = value THEN size ELSE stringTable[v]]]

\* unsigned int addStringTableEntry(StringRef value)
addStringTableEntryResult(value) ==
    LET index == StringIndex(stringTable, value)
    IN  IF index = 0
        THEN LET size == Cardinality(DOMAIN stringTable) + 1
             IN  [index |-> size,
                  stringTable |-> [v \in DOMAIN stringTable \cup {value} |->
                                      IF v = value THEN size ELSE stringTable[v]]]
        ELSE [index |-> index, stringTable |-> stringTable]

addConstantNil ==
    addConstant("addConstantNil", <<>>, KeyNil, Constant("Nil", 0), 1, stringTable)

addConstantBoolean(value) ==
    addConstant("addConstantBoolean", <<value>>, KeyBoolean(value),
                Constant("Boolean", value), 1, stringTable)

addConstantNumber(value) ==
    addConstant("addConstantNumber", <<value>>, KeyNumber(value),
                Constant("Number", value), 1, stringTable)

addConstantVector(x, y, z, w) ==
    addConstant("addConstantVector", <<x, y, z, w>>, KeyVector(x, y, z, w),
                Constant("Vector", <<x, y, z, w>>), 1, stringTable)

addConstantString(value) ==
    LET r == addStringTableEntryResult(value)
    IN  addConstant("addConstantString", <<value>>, KeyString(r.index),
                    Constant("String", r.index), 1, r.stringTable)

\* uint32_t getImportId(int32_t id0): (1u << 30) | (id0 << 20)
getImportId(id0) == 2^30 + id0 * 2^20

\* uint32_t getImportId(int32_t id0, int32_t id1): (2u << 30) | (id0 << 20) | (id1 << 10),
\* a value from 2^31 on, hence the negative number with the same 32 bits
getImportId2(id0, id1) == (-2147483647 - 1) + BitOr(id0 * 2^20, id1 * 2^10)

\* uint32_t getImportId(int32_t id0, int32_t id1, int32_t id2):
\* (3u << 30) | (id0 << 20) | (id1 << 10) | id2
getImportId3(id0, id1, id2) ==
    (-2147483647 - 1) + 2^30 + BitOr(BitOr(id0 * 2^20, id1 * 2^10), id2)

\* the low 31 bits of the 32-bit value ids
Low31(ids) == IF ids < 0 THEN (ids + 2147483647) + 1 ELSE ids

\* ids >> n of the unsigned 32-bit value ids, 0 < n < 32
ShiftRight(ids, n) == (IF ids < 0 THEN 2^(31 - n) ELSE 0) + Low31(ids) \div 2^n

\* decomposeImportId that shifts the signed value
decomposeImportIdSigned(ids) ==
    [count |-> ids \div 2^30,
     id0 |-> IF ids \div 2^30 > 0 THEN (ids \div 2^20) % 1024 ELSE -1,
     id1 |-> IF ids \div 2^30 > 1 THEN (ids \div 2^10) % 1024 ELSE -1,
     id2 |-> IF ids \div 2^30 > 2 THEN ids % 1024 ELSE -1]

\* int decomposeImportId(uint32_t ids, int32_t& id0, int32_t& id1, int32_t& id2)
decomposeImportId(ids) ==
    [count |-> ShiftRight(ids, 30),
     id0 |-> IF ShiftRight(ids, 30) > 0 THEN ShiftRight(ids, 20) % 1024 ELSE -1,
     id1 |-> IF ShiftRight(ids, 30) > 1 THEN ShiftRight(ids, 10) % 1024 ELSE -1,
     id2 |-> IF ShiftRight(ids, 30) > 2 THEN Low31(ids) % 1024 ELSE -1]

\* a call of one of the three static functions getImportId, on the chain ids of one,
\* two or three ids below 1024 (LUAU_ASSERT(unsigned(id0 | id1 | id2) < 1024))
GetImportId(ids) ==
    /\ Running
    /\ \A k \in 1..Len(ids) : ids[k] \in 0..1023
    /\ last' = Call("getImportId", ids,
                    CASE Len(ids) = 1 -> getImportId(ids[1])
                      [] Len(ids) = 2 -> getImportId2(ids[1], ids[2])
                      [] Len(ids) = 3 -> getImportId3(ids[1], ids[2], ids[3]))
    /\ UNCHANGED <<functions, currentFunction, insns, lines, debugLine, jumps,
                   hasLongJumps, constants, constantMap, stringTable, tableShapes,
                   tableShapeMap, protos, protoMap, debugLocals, debugUpvals,
                   userdataTypes, mainFunction, bytecode, pc, fault>>

\* a call of the static function decomposeImportId on the value the last call returned
DecomposeImportId ==
    /\ Running
    /\ last.op = "getImportId"
    /\ last' = Call("decomposeImportId", <<last.ret>>, decomposeImportId(last.ret))
    /\ UNCHANGED <<functions, currentFunction, insns, lines, debugLine, jumps,
                   hasLongJumps, constants, constantMap, stringTable, tableShapes,
                   tableShapeMap, protos, protoMap, debugLocals, debugUpvals,
                   userdataTypes, mainFunction, bytecode, pc, fault>>

\* getStringHash with h << 4 in place of h << 5
RECURSIVE getStringHashShift4(_, _, _)
getStringHashShift4(str, i, h) ==
    IF i = 0 \/ h \notin UInt32 THEN h
    ELSE getStringHashShift4(str, i - 1,
             Xor32(h, Add32(Add32(Shl32(h, 4), Shr32(h, 2)), W32(0, str[i]))))

\* the loop of getStringHash: for (size_t i = len; i > 0; --i)
\*     h ^= (h << 5) + (h >> 2) + (uint8_t)str[i - 1];
RECURSIVE getStringHashFrom(_, _, _)
getStringHashFrom(str, i, h) ==
    IF i = 0 \/ h \notin UInt32 THEN h
    ELSE getStringHashFrom(str, i - 1,
             Xor32(h, Add32(Add32(Shl32(h, 5), Shr32(h, 2)), W32(0, str[i]))))

\* uint32_t getStringHash(StringRef key), key.data as the sequence of its bytes
getStringHash(key) == Int32(getStringHashFrom(key, Len(key), W32(0, Len(key))))

\* #define rol(x, s) ((x >> s) | (x << (32 - s)))
rol(x, s) == Or32(Shr32(x, s), Shl32(x, 32 - s))

\* #define mix(u, v, w) a ^= h, a -= rol(h, u), b ^= a, b -= rol(a, v), h ^= b,
\* h -= rol(b, w), on the record s of a, b and h
mixA(s, u) == [s EXCEPT !.a = Sub32(Xor32(s.a, s.h), rol(s.h, u))]
mixB(s, v) == [s EXCEPT !.b = Sub32(Xor32(s.b, s.a), rol(s.a, v))]
mixH(s, w) == [s EXCEPT !.h = Sub32(Xor32(s.h, s.b), rol(s.b, w))]
mix(s, u, v, w) == mixH(mixB(mixA(s, u), v), w)

\* block[k] after memcpy(block, str, 12), k = 0..2, on a little-endian machine
block(str, k) == W32(str[4 * k + 3] + 256 * str[4 * k + 4], str[4 * k + 1] + 256 * str[4 * k + 2])

\* the first loop of luaS_hash: while (len >= 32), 12 bytes at a time
RECURSIVE luaS_hashPrefix(_, _)
luaS_hashPrefix(str, s) ==
    IF Len(str) >= 32
    THEN luaS_hashPrefix(SubSeq(str, 13, Len(str)),
             mix([a |-> Add32(s.a, block(str, 0)), b |-> Add32(s.b, block(str, 1)),
                  h |-> Add32(s.h, block(str, 2))], 14, 11, 25))
    ELSE [str |-> str, h |-> s.h]

\* the second loop of luaS_hash: for (size_t i = len; i > 0; --i)
\*     h ^= (h << 5) + (h >> 2) + (uint8_t)str[i - 1];
RECURSIVE luaS_hashFrom(_, _, _)
luaS_hashFrom(str, i, h) ==
    IF i = 0 \/ h \notin UInt32 THEN h
    ELSE luaS_hashFrom(str, i - 1,
             Xor32(h, Add32(Add32(Shl32(h, 5), Shr32(h, 2)), W32(0, str[i]))))

\* unsigned int luaS_hash(const char* str, size_t len)
luaS_hash(str) ==
    LET p == luaS_hashPrefix(str, [a |-> W32(0, 0), b |-> W32(0, 0), h |-> W32(0, Len(str))])
    IN  Int32(luaS_hashFrom(p.str, Len(p.str), p.h))

\* a call of the static function getStringHash
GetStringHash(key) ==
    /\ Running
    /\ last' = Call("getStringHash", <<key>>, getStringHash(key))
    /\ UNCHANGED <<functions, currentFunction, insns, lines, debugLine, jumps,
                   hasLongJumps, constants, constantMap, stringTable, tableShapes,
                   tableShapeMap, protos, protoMap, debugLocals, debugUpvals,
                   userdataTypes, mainFunction, bytecode, pc, fault>>

\* the virtual machine's luaS_hash on the bytes the last call of getStringHash took
LuaSHash ==
    /\ Running
    /\ last.op = "getStringHash"
    /\ last' = Call("luaS_hash", last.args, luaS_hash(last.args[1]))
    /\ UNCHANGED <<functions, currentFunction, insns, lines, debugLine, jumps,
                   hasLongJumps, constants, constantMap, stringTable, tableShapes,
                   tableShapeMap, protos, protoMap, debugLocals, debugUpvals,
                   userdataTypes, mainFunction, bytecode, pc, fault>>

\* addImport that interns a name into the string table: what C13 tells from addImport
addImportNamed(iid, n) ==
    addConstant("addImport", <<iid, n>>, KeyImport(iid), Constant("Import", iid), n,
                addStringTableEntryResult("a").stringTable)

\* addImport(iid), .. , addImport(iid + n - 1)
addImport(iid, n) ==
    addConstant("addImport", <<iid, n>>, KeyImport(iid), Constant("Import", iid), n, stringTable)

addConstantClosure(fid) ==
    addConstant("addConstantClosure", <<fid>>, KeyClosure(fid),
                Constant("Closure", fid), 1, stringTable)

\* ShapeEq that takes the keys as a set: what C26 tells from ShapeEq
ShapeEqAnyOrder(a, b) ==
    /\ a.length = b.length
    /\ {a.keys[i] : i \in 1..a.length} = {b.keys[i] : i \in 1..b.length}

\* TableShape::operator==: the lengths and the first length keys
ShapeEq(a, b) ==
    a.length = b.length /\ \A i \in 1..a.length : a.keys[i] = b.keys[i]

\* tableShapeMap.find(shape): the cached id, -1 for nullptr
ShapeFind(m, shape) ==
    IF \E j \in DOMAIN m : ShapeEq(m[j].shape, shape)
    THEN m[CHOOSE j \in DOMAIN m : ShapeEq(m[j].shape, shape)].id
    ELSE -1

\* addConstantTableResult without the test of the pool size: what C11 tells from
\* addConstantTableResult
addConstantTableUnchecked(shape) ==
    LET cached == ShapeFind(tableShapeMap, shape)
        id == PoolSize(constants)
    IN  IF cached >= 0
        THEN [ret |-> cached, constants |-> constants, tableShapes |-> tableShapes,
              tableShapeMap |-> tableShapeMap]
        ELSE [ret |-> id,
              constants |-> Append(constants,
                                   [c |-> Constant("Table", Len(tableShapes)), n |-> 1]),
              tableShapes |-> Append(tableShapes, shape),
              tableShapeMap |-> Append(tableShapeMap, [shape |-> shape, id |-> id])]

\* int32_t addConstantTable(const TableShape& shape)
addConstantTableResult(shape) ==
    LET cached == ShapeFind(tableShapeMap, shape)
        id == PoolSize(constants)
    IN  IF cached >= 0
        THEN [ret |-> cached, constants |-> constants, tableShapes |-> tableShapes,
              tableShapeMap |-> tableShapeMap]
        ELSE IF PoolFull(id)
        THEN [ret |-> -1, constants |-> constants, tableShapes |-> tableShapes,
              tableShapeMap |-> tableShapeMap]
        ELSE [ret |-> id,
              constants |-> Append(constants,
                                   [c |-> Constant("Table", Len(tableShapes)), n |-> 1]),
              tableShapes |-> Append(tableShapes, shape),
              tableShapeMap |-> Append(tableShapeMap, [shape |-> shape, id |-> id])]

addConstantTable(shape) ==
    /\ Running
    /\ LET r == addConstantTableResult(shape)
       IN  /\ constants' = r.constants
           /\ tableShapes' = r.tableShapes
           /\ tableShapeMap' = r.tableShapeMap
           /\ last' = Call("addConstantTable", <<shape>>, r.ret)
    /\ UNCHANGED <<functions, currentFunction, jumpVars, debugLine, constantMap, stringTable,
                   protoVars, debugVars, blobVars, pc, fault>>

-----------------------------------------------------------------------------
(* Serialization.                                                           *)
(* A byte string is a sequence of items in the order they are written:      *)
(* Bytes(part, b) for the bytes b, Enum(part, name) for one byte that holds *)
(* the enumerator name of Bytecode.h, Ints(part, rs) for writeInt of every  *)
(* word of the run-length encoded vector rs, Chars(part, s) for the raw      *)
(* characters of the string s.  part names the section of the record the    *)
(* item belongs to.                                                         *)

Bytes(part, b) == [part |-> part, b |-> b, sym |-> "", runs |-> <<>>]
Enum(part, name) == [part |-> part, b |-> <<>>, sym |-> name, runs |-> <<>>]
Ints(part, rs) == [part |-> part, b |-> <<>>, sym |-> "", runs |-> rs]
Chars(part, s) == [part |-> part, b |-> <<>>, sym |-> s, runs |-> <<>>]

\* static int log2(int v)
RECURSIVE log2From(_, _)
log2From(v, r) == IF v >= 2 * 2^r THEN log2From(v, r + 1) ELSE r

\* log2 that is one less for v >= 2: what C30 tells from log2
log2Less(v) == IF v < 2 THEN 0 ELSE log2From(v, 0) - 1

log2(v) == log2From(v, 0)

\* writeByte(ss, value)
writeByte(value) == <<U8(value)>>

\* writeInt(ss, value): the four bytes of the two's complement int, lowest first
writeInt(value) ==
    IF value >= 0
    THEN <<value % 256, (value \div 256) % 256, (value \div 65536) % 256, value \div 16777216>>
    ELSE LET u == value + 2147483647 + 1
         IN  <<u % 256, (u \div 256) % 256, (u \div 65536) % 256, (u \div 16777216) + 128>>

\* writeFloat(ss, value) and writeDouble(ss, value): the bytes of the bits, lowest first
writeFloat(value) ==
    LET bits == FloatBits(value)
    IN  <<bits[2] % 256, bits[2] \div 256, bits[1] % 256, bits[1] \div 256>>

writeDouble(value) ==
    LET bits == DoubleBits(value)
    IN  <<bits[4] % 256, bits[4] \div 256, bits[3] % 256, bits[3] \div 256,
          bits[2] % 256, bits[2] \div 256, bits[1] % 256, bits[1] \div 256>>

\* writeVarInt that writes the lowest group only: what C25 tells from writeVarInt
writeVarIntShort(value) == <<value % 128>>

\* writeVarInt(ss, value): value is an unsigned int, a negative number here stands
\* for value + 2^32 (the same 32 bits); value >>= 7 shifts zeros in
RECURSIVE writeVarInt(_)
writeVarInt(value) ==
    LET shifted == IF value < 0 THEN (value \div 128) + 33554432 ELSE value \div 128
    IN  <<(value % 128) + (IF value > 127 \/ value < 0 THEN 128 ELSE 0)>>
        \o (IF shifted # 0 THEN writeVarInt(shifted) ELSE <<>>)

\* a call of the static function writeVarInt
WriteVarInt(value) ==
    /\ Running
    /\ last' = Call("writeVarInt", <<value>>, writeVarInt(value))
    /\ UNCHANGED <<functions, currentFunction, insns, lines, debugLine, jumps,
                   hasLongJumps, constants, constantMap, stringTable, tableShapes,
                   tableShapeMap, protos, protoMap, debugLocals, debugUpvals,
                   userdataTypes, mainFunction, bytecode, pc, fault>>

\* the byte strings of ss, one after the other
RECURSIVE Concat(_)
Concat(ss) == IF Len(ss) = 0 THEN <<>> ELSE ss[1] \o Concat(Tail(ss))

\* the elements of a run-length encoded vector, one by one
Flat(rs) == [p \in 1..Size(rs) |-> At(rs, p - 1)]

\* protos.size()
RECURSIVE ChildCount(_)
ChildCount(ps) == IF Len(ps) = 0 THEN 0 ELSE ps[1].n + ChildCount(Tail(ps))

\* protos[p]
ChildAt(ps, p) ==
    LET j == CHOOSE j \in 1..Len(ps) :
                 ChildCount(SubSeq(ps, 1, j - 1)) <= p /\ p < ChildCount(SubSeq(ps, 1, j))
    IN  ps[j].fid + (p - ChildCount(SubSeq(ps, 1, j - 1)))

Min2(a, b) == IF a < b THEN a ELSE b
Max2(a, b) == IF a > b THEN a ELSE b

\* writeLineInfo, first pass, inner loop: the position next at which the loop over
\* lines[offset .. offset + span) ends; ls is lines, ls[i + 1] is lines[i]
RECURSIVE LineScan(_, _, _, _, _, _)
LineScan(ls, offset, span, next, min, max) ==
    IF next < Len(ls) /\ next < offset + span
    THEN LET mn == Min2(min, ls[next + 1])
             mx == Max2(max, ls[next + 1])
         IN  IF mx - mn > 255 THEN next
             ELSE LineScan(ls, offset, span, next + 1, mn, mx)
    ELSE next

\* LineSpan that never shrinks the span: what C20 tells from LineSpan
LineSpanWhole(ls, offset, span) == span

\* writeLineInfo, first pass: the span after the loop from offset on
RECURSIVE LineSpan(_, _, _)
LineSpan(ls, offset, span) ==
    IF offset < Len(ls)
    THEN LET next == LineScan(ls, offset, span, offset, ls[offset + 1], ls[offset + 1])
             shrunk == IF next < Len(ls) /\ next - offset < span
                       THEN 2^log2(next - offset)
                       ELSE span
         IN  LineSpan(ls, offset + shrunk, shrunk)
    ELSE span

\* writeLineInfo, second pass: min of lines[offset .. offset + span)
RECURSIVE LineMin(_, _, _, _, _)
LineMin(ls, offset, span, next, min) ==
    IF next < Len(ls) /\ next < offset + span
    THEN LineMin(ls, offset, span, next + 1, Min2(min, ls[next + 1]))
    ELSE min

\* baseline[0 .. baselineSize), as a sequence
LineBaseline(ls, span) ==
    [k \in 1..((Len(ls) - 1) \div span + 1) |->
        LineMin(ls, (k - 1) * span, span, (k - 1) * span, ls[(k - 1) * span + 1])]

\* void writeLineInfo(std::string& ss) const, for lines = ls: the bytes written, and
\* whether LUAU_ASSERT(delta >= 0 && delta <= 255) held for every line
writeLineInfo(ls) ==
    LET span == LineSpan(ls, 0, 16777216)
        baseline == LineBaseline(ls, span)
        logspan == log2(span)
        delta == [i \in 1..Len(ls) |-> ls[i] - baseline[((i - 1) \div 2^logspan) + 1]]
        offsets == [i \in 1..Len(ls) |->
                       writeByte(U8(delta[i]) - (IF i = 1 THEN 0 ELSE U8(delta[i - 1])))[1]]
        diffs == [k \in 1..Len(baseline) |->
                     writeInt(baseline[k] - (IF k = 1 THEN 0 ELSE baseline[k - 1]))]
    IN  [bytes |-> writeByte(logspan) \o offsets \o Concat(diffs),
         ok |-> \A i \in 1..Len(ls) : delta[i] >= 0 /\ delta[i] <= 255]

\* ss.append of the bytes of data to func.data
WithData(func, data) == [func EXCEPT !.data = func.data \o data]

\* the bytes writeFunction writes for one constant
ConstantItems(c, shapes) ==
    CASE c.type = "Nil" -> <<Enum("constants", "LBC_CONSTANT_NIL")>>
      [] c.type = "Boolean" ->
            <<Enum("constants", "LBC_CONSTANT_BOOLEAN"),
              Bytes("constants", writeByte(IF c.value THEN 1 ELSE 0))>>
      [] c.type = "Number" ->
            <<Enum("constants", "LBC_CONSTANT_NUMBER"), Bytes("constants", writeDouble(c.value))>>
      [] c.type = "Vector" ->
            <<Enum("constants", "LBC_CONSTANT_VECTOR"),
              Bytes("constants", writeFloat(c.value[1]) \o writeFloat(c.value[2])
                                  \o writeFloat(c.value[3]) \o writeFloat(c.value[4]))>>
      [] c.type = "String" ->
            <<Enum("constants", "LBC_CONSTANT_STRING"), Bytes("constants", writeVarInt(c.value))>>
      [] c.type = "Import" ->
            <<Enum("constants", "LBC_CONSTANT_IMPORT"), Bytes("constants", writeInt(c.value))>>
      [] c.type = "Table" ->
            LET shape == shapes[c.value + 1]
            IN  <<Enum("constants", "LBC_CONSTANT_TABLE"),
                  Bytes("constants",
                        writeVarInt(shape.length)
                        \o Concat([i \in 1..shape.length |-> writeVarInt(shape.keys[i])]))>>
      [] c.type = "Closure" ->
            <<Enum("constants", "LBC_CONSTANT_CLOSURE"), Bytes("constants", writeVarInt(c.value))>>

\* for (const Constant& c : constants), over the runs of the pool
RECURSIVE PoolItems(_, _, _, _)
PoolItems(cs, shapes, j, i) ==
    IF j > Len(cs) THEN <<>>
    ELSE IF i >= cs[j].n THEN PoolItems(cs, shapes, j + 1, 0)
    ELSE ConstantItems(IF i = 0 THEN cs[j].c ELSE Constant(cs[j].c.type, cs[j].c.value + i),
                       shapes)
         \o PoolItems(cs, shapes, j, i + 1)

\* HasLines that looks at the last line only: what C21 tells from HasLines
HasLinesLast(ls) == Len(ls) = 0 \/ ls[Len(ls)].w # 0

\* bool hasLines: no line is 0
HasLines(ls) == \A j \in DOMAIN ls : ls[j].w # 0

\* void writeFunction(std::string& ss, uint32_t id, uint8_t flags) for func = functions[id]
\* and the vectors of the open function: the bytes, and the assertion that failed
writeFunction(func, flags) ==
    LET lineinfo == IF HasLines(lines) /\ Size(lines) > 0
                    THEN writeLineInfo(Flat(lines))
                    ELSE [bytes |-> <<>>, ok |-> TRUE]
        hasDebug == Len(debugLocals) > 0 \/ Len(debugUpvals) > 0
    IN  [data |->
            <<Bytes("header",
                    writeByte(func.maxstacksize) \o writeByte(func.numparams)
                    \o writeByte(func.numupvalues)
                    \o writeByte(IF func.isvararg THEN 1 ELSE 0) \o writeByte(flags)),
              Bytes("typeinfo", writeVarInt(0)),
              Bytes("code", writeVarInt(Size(insns))),
              Ints("code", insns),
              Bytes("constants", writeVarInt(PoolSize(constants)))>>
            \o PoolItems(constants, tableShapes, 1, 0)
            \o <<Bytes("protos",
                       writeVarInt(ChildCount(protos))
                       \o Concat([i \in 1..ChildCount(protos) |->
                                     writeVarInt(ChildAt(protos, i - 1))])),
                 Bytes("debug",
                       writeVarInt(func.debuglinedefined) \o writeVarInt(func.debugname)),
                 Bytes("lines",
                       IF HasLines(lines) THEN writeByte(1) \o lineinfo.bytes
                       ELSE writeByte(0)),
                 Bytes("locals",
                       IF hasDebug
                       THEN writeByte(1) \o writeVarInt(Len(debugLocals))
                            \o Concat([i \in 1..Len(debugLocals) |->
                                          writeVarInt(debugLocals[i].name)
                                          \o writeVarInt(debugLocals[i].startpc)
                                          \o writeVarInt(debugLocals[i].endpc)
                                          \o writeByte(debugLocals[i].reg)])
                            \o writeVarInt(Len(debugUpvals))
                            \o Concat([i \in 1..Len(debugUpvals) |->
                                          writeVarInt(debugUpvals[i].name)])
                       ELSE writeByte(0))>>,
         fault |->
            IF HasLines(lines) /\ Size(lines) = 0 THEN "writeLineInfo: !lines.empty()"
            ELSE IF ~lineinfo.ok THEN "writeLineInfo: delta >= 0 && delta <= 255"
            ELSE "none"]

\* ClearMap that keeps the entries: what C16 tells from ClearMap
ClearMapKept(m) == m

-----------------------------------------------------------------------------
(* validate: validateInstructions and validateVariadic, run by endFunction   *)
(* on insns, constants, protos and the functions closed so far               *)

\* enum LuauOpcode in its order: the low byte of a word is the place of its name
LuauOpcode ==
    <<"NOP", "BREAK", "LOADNIL", "LOADB", "LOADN", "LOADK", "MOVE", "GETGLOBAL",
      "SETGLOBAL", "GETUPVAL", "SETUPVAL", "CLOSEUPVALS", "GETIMPORT", "GETTABLE",
      "SETTABLE", "GETTABLEKS", "SETTABLEKS", "GETTABLEN", "SETTABLEN", "NEWCLOSURE",
      "NAMECALL", "CALL", "RETURN", "JUMP", "JUMPBACK", "JUMPIF", "JUMPIFNOT",
      "JUMPIFEQ", "JUMPIFLE", "JUMPIFLT", "JUMPIFNOTEQ", "JUMPIFNOTLE", "JUMPIFNOTLT",
      "ADD", "SUB", "MUL", "DIV", "MOD", "POW", "ADDK", "SUBK", "MULK", "DIVK", "MODK",
      "POWK", "AND", "OR", "ANDK", "ORK", "CONCAT", "NOT", "MINUS", "LENGTH",
      "NEWTABLE", "DUPTABLE", "SETLIST", "FORNPREP", "FORNLOOP", "FORGLOOP",
      "FORGPREP_INEXT", "FASTCALL3", "FORGPREP_NEXT", "NATIVECALL", "GETVARARGS",
      "DUPCLOSURE", "PREPVARARGS", "LOADKX", "JUMPX", "FASTCALL", "COVERAGE",
      "CAPTURE", "SUBRK", "DIVRK", "FASTCALL1", "FASTCALL2", "FASTCALL2K", "FORGPREP",
      "JUMPXEQKNIL", "JUMPXEQKB", "JUMPXEQKN", "JUMPXEQKS", "IDIV", "IDIVK">>

\* uint8_t(insns[i + 1])
AuxByte(w) == (CHOOSE k \in 1..Len(LuauOpcode) : LuauOpcode[k] = w.op) - 1

\* insns[i + 1] & 0xffffff
AuxLow24(w) == AuxByte(w) + 256 * w.a + 65536 * w.b

\* insns[i + 1] read as an operand; a value of 2^31 or more is the negative number of
\* the same 32 bits, which unsigned() turns back
AuxValue(w) == AuxLow24(w) + 16777216 * (IF w.c >= 128 THEN w.c - 256 ELSE w.c)

\* the words of run i the loops of validate stop at: every one for a run of
\* trampolines, every second one after the carried word for a run of two-word
\* instructions
StartCount(rs, i) ==
    LET len == RunLen(rs[i]) - CarryInto(rs, i)
    IN  IF len <= 0 THEN 0
        ELSE IF rs[i].k = "tramp" THEN len
        ELSE (len + getOpLength(INSN_OP(rs[i].w)) - 1) \div getOpLength(INSN_OP(rs[i].w))

StartAt(rs, i, k) ==
    Base(rs, i) + CarryInto(rs, i)
    + k * (IF rs[i].k = "tramp" THEN 1 ELSE getOpLength(INSN_OP(rs[i].w)))

\* insnvalid[p]
insnvalid(rs, p) ==
    LET i == RunIndex(rs, p)
        q == p - Base(rs, i) - CarryInto(rs, i)
    IN  q >= 0 /\ (rs[i].k = "tramp" \/ getOpLength(INSN_OP(rs[i].w)) = 1 \/ q % 2 = 0)

\* VJUMP without the test of insnvalid: what C31 tells from VJUMP
VJUMPInside(i, v) == i + 1 + v >= 0 /\ i + 1 + v < Size(insns)

\* LUAU_ASSERT(size_t(i + 1 + v) < insns.size() && insnvalid[i + 1 + v])
VJUMP(i, v) ==
    /\ i + 1 + v >= 0 /\ i + 1 + v < Size(insns)
    /\ insnvalid(insns, i + 1 + v)

\* VREG up to the stack size itself: what C33 tells from VREG
VREGInclusive(v, func) == v >= 0 /\ v <= func.maxstacksize

\* LUAU_ASSERT(unsigned(v) < func.maxstacksize)
VREG(v, func) == v >= 0 /\ v < func.maxstacksize

\* LUAU_ASSERT(unsigned(v + (count < 0 ? 0 : count)) <= func.maxstacksize)
VREGRANGE(v, count, func) == v + (IF count < 0 THEN 0 ELSE count) <= func.maxstacksize

\* LUAU_ASSERT(unsigned(v) < func.numupvalues)
VUPVAL(v, func) == v >= 0 /\ v < func.numupvalues

\* LUAU_ASSERT(unsigned(v) < constants.size())
VCONSTANY(v) == v >= 0 /\ v < PoolSize(constants)

\* LUAU_ASSERT(unsigned(v) < constants.size() && constants[v].type == Constant::Type_##kind)
VCONST(v, kind) == VCONSTANY(v) /\ ConstantAt(constants, v).type = kind

\* LUAU_INSN_OP(insns[p]), with "" for a position outside insns
OpAt(p) == IF p >= 0 /\ p < Size(insns) THEN INSN_OP(At(insns, p)) ELSE ""

\* one LUAU_ASSERT of the switch: the macro or test k, its operands v and x
Check(k, v, x) == [k |-> k, v |-> v, x |-> x]

\* the loop over the numupvalues words after NEWCLOSURE / DUPCLOSURE
Captures(i, numupvalues, kinds) ==
    \A j \in 0..(numupvalues - 1) :
        /\ OpAt(i + 1 + j) = "CAPTURE"
        /\ At(insns, i + 1 + j).a \in kinds

\* the assertion c of the case of insns[i] holds
Holds(c, i, func, fs) ==
    CASE c.k = "VREG" -> VREG(c.v, func)
      [] c.k = "VREGRANGE" -> VREGRANGE(c.v, c.x, func)
      [] c.k = "VUPVAL" -> VUPVAL(c.v, func)
      [] c.k = "VCONSTANY" -> VCONSTANY(c.v)
      [] c.k = "VCONST" -> VCONST(c.v, c.x)
      [] c.k = "VJUMP" -> VJUMP(i, c.v)
      [] c.k = "insns[i + 2]" -> c.v < Size(insns)
      [] c.k = "LOP_CALL" -> c.v >= Size(insns) \/ OpAt(c.v) = "CALL"
      [] c.k = "protos.size()" -> c.v >= 0 /\ c.v < ChildCount(protos)
      [] c.k = "functions.size()" -> c.v < Len(fs)
      [] c.k = "LOP_CAPTURE" ->
            c.v < 0 \/ c.v >= Len(fs) \/ Captures(i, fs[c.v + 1].numupvalues, c.x)
      [] OTHER -> c.v

\* the assertions on a register, on a jump by v, and on the skip of a fast call
Reg(v) == <<Check("VREG", v, 0)>>
Jump(v) == <<Check("VJUMP", v, 0)>>
FastJump(i, c) == <<Check("VJUMP", c, 0), Check("LOP_CALL", i + 1 + c, 0)>>

\* protos[D] and constants[D].valueClosure, -1 where the assertion before has failed
ProtoOf(d) == IF d >= 0 /\ d < ChildCount(protos) THEN ChildAt(protos, d) ELSE -1
ClosureOf(d) == IF VCONST(d, "Closure") THEN ConstantAt(constants, d).value ELSE -1

\* the case of the switch for the instruction insn = insns[i], next = insns[i + 1]: its
\* assertions in the order of the code
InsnChecks(i, insn, next, func) ==
    CASE insn.op \in {"LOADNIL", "LOADN", "NEWTABLE", "CLOSEUPVALS"} -> Reg(insn.a)
      [] insn.op = "LOADB" -> Reg(insn.a) \o <<Check("LOADB: B", insn.b \in {0, 1}, 0), Check("VJUMP", insn.c, 0)>>
      [] insn.op = "LOADK" -> Reg(insn.a) \o <<Check("VCONSTANY", INSN_D(insn), 0)>>
      [] insn.op \in {"MOVE", "GETTABLEN", "SETTABLEN", "NOT", "MINUS", "LENGTH"} -> Reg(insn.a) \o Reg(insn.b)
      [] insn.op \in {"GETGLOBAL", "SETGLOBAL"} -> Reg(insn.a) \o <<Check("VCONST", AuxValue(next), "String")>>
      [] insn.op \in {"GETUPVAL", "SETUPVAL"} -> Reg(insn.a) \o <<Check("VUPVAL", insn.b, 0)>>
      [] insn.op = "GETIMPORT" ->
            Reg(insn.a) \o <<Check("VCONST", INSN_D(insn), "Import"),
                    Check("GETIMPORT: id >> 30", next.c \div 64 # 0, 0),
                    Check("VCONST", (next.c % 64) * 16 + next.b \div 16, "String")>>
               \o (IF next.c \div 64 < 2 THEN <<>>
                   ELSE <<Check("VCONST", (next.b % 16) * 64 + next.a \div 4, "String")>>)
               \o (IF next.c \div 64 < 3 THEN <<>>
                   ELSE <<Check("VCONST", (next.a % 4) * 256 + AuxByte(next), "String")>>)
      [] insn.op \in {"GETTABLE", "SETTABLE", "ADD", "SUB", "MUL", "DIV", "IDIV", "MOD", "POW",
                 "AND", "OR"} -> Reg(insn.a) \o Reg(insn.b) \o Reg(insn.c)
      [] insn.op \in {"GETTABLEKS", "SETTABLEKS"} ->
            Reg(insn.a) \o Reg(insn.b) \o <<Check("VCONST", AuxValue(next), "String")>>
      [] insn.op = "NEWCLOSURE" ->
            Reg(insn.a) \o <<Check("protos.size()", INSN_D(insn), 0), Check("functions.size()", ProtoOf(INSN_D(insn)), 0),
                    Check("LOP_CAPTURE", ProtoOf(INSN_D(insn)), 0..255)>>
      [] insn.op = "NAMECALL" ->
            Reg(insn.a) \o Reg(insn.b) \o <<Check("VCONST", AuxValue(next), "String"), Check("insns[i + 2]", i + 2, 0),
                          Check("LOP_CALL", i + 2, 0)>>
      [] insn.op = "CALL" ->
            Reg(insn.a) \o <<Check("VREGRANGE", insn.a + 1, insn.b - 1), Check("VREGRANGE", insn.a, insn.c - 1)>>
      [] insn.op \in {"RETURN", "GETVARARGS"} -> <<Check("VREGRANGE", insn.a, insn.b - 1)>>
      [] insn.op \in {"JUMP", "JUMPBACK"} -> Jump(INSN_D(insn))
      [] insn.op \in {"JUMPIF", "JUMPIFNOT", "JUMPXEQKNIL", "JUMPXEQKB"} -> Reg(insn.a) \o Jump(INSN_D(insn))
      [] insn.op \in {"JUMPIFEQ", "JUMPIFLE", "JUMPIFLT", "JUMPIFNOTEQ", "JUMPIFNOTLE",
                 "JUMPIFNOTLT"} -> Reg(insn.a) \o <<Check("VREG", AuxValue(next), 0)>> \o Jump(INSN_D(insn))
      [] insn.op = "JUMPXEQKN" -> Reg(insn.a) \o <<Check("VCONST", AuxLow24(next), "Number")>> \o Jump(INSN_D(insn))
      [] insn.op = "JUMPXEQKS" -> Reg(insn.a) \o <<Check("VCONST", AuxLow24(next), "String")>> \o Jump(INSN_D(insn))
      [] insn.op \in {"ADDK", "SUBK", "MULK", "DIVK", "IDIVK", "MODK", "POWK"} ->
            Reg(insn.a) \o Reg(insn.b) \o <<Check("VCONST", insn.c, "Number")>>
      [] insn.op \in {"SUBRK", "DIVRK"} -> Reg(insn.a) \o <<Check("VCONST", insn.b, "Number")>> \o Reg(insn.c)
      [] insn.op \in {"ANDK", "ORK"} -> Reg(insn.a) \o Reg(insn.b) \o <<Check("VCONSTANY", insn.c, 0)>>
      [] insn.op = "CONCAT" -> Reg(insn.a) \o Reg(insn.b) \o Reg(insn.c) \o <<Check("CONCAT: B <= C", insn.b <= insn.c, 0)>>
      [] insn.op = "DUPTABLE" -> Reg(insn.a) \o <<Check("VCONST", INSN_D(insn), "Table")>>
      [] insn.op = "SETLIST" -> Reg(insn.a) \o <<Check("VREGRANGE", insn.b, insn.c - 1)>>
      [] insn.op \in {"FORNPREP", "FORNLOOP"} -> <<Check("VREG", insn.a + 2, 0)>> \o Jump(INSN_D(insn))
      [] insn.op = "FORGPREP" -> <<Check("VREG", insn.a + 2 + 1, 0)>> \o Jump(INSN_D(insn))
      [] insn.op = "FORGLOOP" ->
            <<Check("VREG", insn.a + 2 + AuxByte(next), 0)>> \o Jump(INSN_D(insn))
               \o <<Check("FORGLOOP: aux", AuxByte(next) >= 1, 0)>>
      [] insn.op \in {"FORGPREP_INEXT", "FORGPREP_NEXT"} -> <<Check("VREG", insn.a + 4, 0)>> \o Jump(INSN_D(insn))
      [] insn.op = "DUPCLOSURE" ->
            Reg(insn.a) \o <<Check("VCONST", INSN_D(insn), "Closure"), Check("functions.size()", ClosureOf(INSN_D(insn)), 0),
                    Check("LOP_CAPTURE", ClosureOf(INSN_D(insn)), {0, 2})>>
      [] insn.op = "PREPVARARGS" ->
            <<Check("PREPVARARGS: numparams", insn.a = func.numparams, 0),
              Check("PREPVARARGS: isvararg", func.isvararg, 0)>>
      [] insn.op \in {"BREAK", "COVERAGE"} -> <<>>
      [] insn.op = "LOADKX" -> Reg(insn.a) \o <<Check("VCONSTANY", AuxValue(next), 0)>>
      [] insn.op = "JUMPX" -> <<Check("VJUMP", INSN_E(insn), 0)>>
      [] insn.op = "FASTCALL" -> FastJump(i, insn.c)
      [] insn.op = "FASTCALL1" -> Reg(insn.b) \o FastJump(i, insn.c)
      [] insn.op = "FASTCALL2" -> Reg(insn.b) \o FastJump(i, insn.c) \o <<Check("VREG", AuxValue(next), 0)>>
      [] insn.op = "FASTCALL2K" -> Reg(insn.b) \o FastJump(i, insn.c) \o <<Check("VCONSTANY", AuxValue(next), 0)>>
      [] insn.op = "FASTCALL3" ->
            Reg(insn.b) \o FastJump(i, insn.c) \o <<Check("VREG", AuxByte(next), 0), Check("VREG", next.a, 0)>>
      [] insn.op = "CAPTURE" ->
            IF insn.a \in {0, 1} THEN Reg(insn.b)
            ELSE IF insn.a = 2 THEN <<Check("VUPVAL", insn.b, 0)>>
            ELSE <<Check("Unsupported capture type", FALSE, 0)>>
      [] OTHER -> <<Check("Unsupported opcode", FALSE, 0)>>

\* the assertions of the case of insns[i] that fail, by their names
InsnFaults(i, func, fs) ==
    LET checks == InsnChecks(i, At(insns, i),
                             IF i + 1 < Size(insns) THEN At(insns, i + 1) ELSE At(insns, i), func)
    IN  [n \in 1..Len(checks) |-> IF Holds(checks[n], i, func, fs) THEN "" ELSE checks[n].k]

\* the instructions of run i whose assertions no other instruction of the run stands for:
\* all of them where an assertion reads the position i, the first and the last of a run
\* of equal words where none does
CheckedStarts(rs, i) ==
    LET op == INSN_OP(rs[i].w)
        count == StartCount(rs, i)
    IN  IF count = 0 THEN {}
        ELSE IF rs[i].k = "rep"
                /\ ~(isJumpD(op) \/ isSkipC(op) \/ isFastCall(op)
                     \/ op \in {"JUMPX", "NEWCLOSURE", "DUPCLOSURE", "NAMECALL"})
        THEN {StartAt(rs, i, 0), StartAt(rs, i, count - 1)}
        ELSE {StartAt(rs, i, k) : k \in 0..(count - 1)}

\* openCaptures after the instructions of the runs i .. Len(rs): CAPTURE of LCT_REF
\* pushes B, CLOSEUPVALS pops the registers at or above A
RECURSIVE OpenCaptures(_, _, _, _)
OpenCaptures(rs, i, k, open) ==
    IF i > Len(rs) THEN open
    ELSE IF k >= StartCount(rs, i)
            \/ rs[i].k = "tramp" \/ INSN_OP(rs[i].w) \notin {"CAPTURE", "CLOSEUPVALS"}
    THEN OpenCaptures(rs, i + 1, 0, open)
    ELSE LET w == rs[i].w
         IN  IF INSN_OP(w) = "CLOSEUPVALS"
             THEN OpenCaptures(rs, i + 1, 0, SelectSeq(open, LAMBDA r : r < w.a))
             ELSE OpenCaptures(rs, i, k + 1, IF w.a = 1 THEN Append(open, w.b) ELSE open)

\* void validateInstructions() const: "none", or the first assertion that fails
validateInstructions(func, fs) ==
    LET checked == UNION {CheckedStarts(insns, i) : i \in 1..Len(insns)}
        faults == [i \in checked |-> SelectSeq(InsnFaults(i, func, fs), LAMBDA n : n # "")]
        failed == {i \in checked : faults[i] # <<>>}
        first == CHOOSE i \in failed : \A j \in failed : i <= j
    IN  IF Len(insns) > 0 /\ CarryInto(insns, Len(insns) + 1) = 1
        THEN "validateInstructions: i <= insns.size()"
        ELSE IF failed # {}
        THEN "validateInstructions: " \o Head(faults[first])
        ELSE IF OpenCaptures(insns, 1, 0, <<>>) # <<>>
        THEN "validateInstructions: openCaptures.empty()"
        ELSE "none"

\* static int getJumpTarget(uint32_t insn, uint32_t pc): -1 for an instruction that does not
\* branch
getJumpTarget(insn, i) ==
    IF isJumpD(INSN_OP(insn)) THEN i + INSN_D(insn) + 1
    ELSE IF isFastCall(INSN_OP(insn)) THEN i + INSN_C(insn) + 2
    ELSE IF isSkipC(INSN_OP(insn)) /\ INSN_C(insn) # 0 THEN i + INSN_C(insn) + 1
    ELSE IF INSN_OP(insn) = "JUMPX" THEN i + INSN_E(insn) + 1
    ELSE -1

\* the instructions the first loop of validateVariadic takes a target from: those of
\* the runs of branches that are no fast calls
JumpSources(rs) ==
    UNION {{StartAt(rs, i, k) :
               k \in (IF rs[i].k = "tramp" \/ isJumpD(INSN_OP(rs[i].w))
                         \/ isSkipC(INSN_OP(rs[i].w)) \/ INSN_OP(rs[i].w) = "JUMPX"
                      THEN 0..(StartCount(rs, i) - 1) ELSE {})} : i \in 1..Len(rs)}

\* the positions p with insntargets[p] set
JumpTargets(rs) == {t \in {getJumpTarget(At(rs, s), s) : s \in JumpSources(rs)} : t >= 0}

\* IsNeutral with every opcode that is no call: what C32 tells from IsNeutral
IsNeutralWide(op) ==
    op \notin {"CALL", "FASTCALL", "FASTCALL1", "FASTCALL2", "FASTCALL2K", "FASTCALL3"}

\* the opcodes a variadic sequence may hold between its producer and its consumer
IsNeutral(op) ==
    op \in {"CLOSEUPVALS", "NAMECALL", "GETIMPORT", "MOVE", "GETUPVAL", "GETGLOBAL",
            "GETTABLEKS", "COVERAGE"}

\* one turn of the second loop of validateVariadic, for the instruction insns[i]:
\* the assertion that fails, and variadicSeq after it
VariadicStep(rs, i, variadicSeq, targets) ==
    LET insn == At(rs, i)
        op == INSN_OP(insn)
        callTarget == i + INSN_C(insn) + 1
        Ok(seq) == [fault |-> "none", variadicSeq |-> seq]
        Fails(name) == [fault |-> "validateVariadic: " \o name, variadicSeq |-> variadicSeq]
    IN  IF variadicSeq /\ i \in targets THEN Fails("!insntargets[i]")
        ELSE IF op = "CALL"
        THEN IF insn.b = 0 /\ ~variadicSeq THEN Fails("variadicSeq")
             ELSE IF insn.b # 0 /\ variadicSeq THEN Fails("!variadicSeq")
             ELSE Ok(insn.c = 0)
        ELSE IF op = "GETVARARGS" /\ insn.b = 0
        THEN IF variadicSeq THEN Fails("!variadicSeq") ELSE Ok(TRUE)
        ELSE IF (op = "RETURN" /\ insn.b = 0) \/ (op = "SETLIST" /\ insn.c = 0)
        THEN IF variadicSeq THEN Ok(FALSE) ELSE Fails("variadicSeq")
        ELSE IF op = "FASTCALL"
        THEN IF ~(callTarget < Size(rs) /\ INSN_OP(At(rs, callTarget)) = "CALL")
             THEN Fails("FASTCALL: LOP_CALL")
             ELSE IF At(rs, callTarget).b = 0 /\ ~variadicSeq THEN Fails("variadicSeq")
             ELSE IF At(rs, callTarget).b # 0 /\ variadicSeq THEN Fails("!variadicSeq")
             ELSE Ok(variadicSeq)
        ELSE IF IsNeutral(op) THEN Ok(variadicSeq)
        ELSE IF variadicSeq THEN Fails("!variadicSeq")
        ELSE Ok(variadicSeq)

\* the second loop of validateVariadic from instruction k of run i on; the instructions
\* of a run of equal words that are no calls, returns or table stores leave variadicSeq
\* as it is and are passed together
RECURSIVE VariadicFrom(_, _, _, _, _)
VariadicFrom(rs, i, k, variadicSeq, targets) ==
    IF i > Len(rs)
    THEN IF variadicSeq THEN "validateVariadic: !variadicSeq" ELSE "none"
    ELSE IF k >= StartCount(rs, i) THEN VariadicFrom(rs, i + 1, 0, variadicSeq, targets)
    ELSE IF rs[i].k = "tramp"
            \/ INSN_OP(rs[i].w) \in {"CALL", "GETVARARGS", "RETURN", "SETLIST", "FASTCALL"}
    THEN LET step == VariadicStep(rs, StartAt(rs, i, k), variadicSeq, targets)
         IN  IF step.fault # "none" THEN step.fault
             ELSE VariadicFrom(rs, i, k + 1, step.variadicSeq, targets)
    ELSE IF variadicSeq /\ \E t \in targets :
                               /\ t >= StartAt(rs, i, k) /\ t < Base(rs, i) + RunLen(rs[i])
                               /\ insnvalid(rs, t)
    THEN "validateVariadic: !insntargets[i]"
    ELSE IF variadicSeq /\ ~IsNeutral(INSN_OP(rs[i].w)) THEN "validateVariadic: !variadicSeq"
    ELSE VariadicFrom(rs, i + 1, 0, variadicSeq, targets)

\* void validateVariadic() const: "none", or the first assertion that fails
validateVariadic ==
    IF Len(insns) > 0 /\ CarryInto(insns, Len(insns) + 1) = 1
    THEN "validateVariadic: i <= insns.size()"
    ELSE IF \E t \in JumpTargets(insns) : t >= Size(insns)
    THEN "validateVariadic: target < insns.size()"
    ELSE VariadicFrom(insns, 1, 0, FALSE, JumpTargets(insns))

\* void validate() const: validateInstructions(); validateVariadic()
validate(func, fs) ==
    LET faults == SelectSeq(<<validateInstructions(func, fs), validateVariadic>>,
                            LAMBDA f : f # "none")
    IN  IF faults = <<>> THEN "none" ELSE Head(faults)

\* constantMap.clear(), tableShapeMap.clear(), protoMap.clear()
ClearMap(m) == <<>>

\* CurrentSlot taken at the function before the open one: what C18 tells from
\* CurrentSlot
EarlierSlot == IF currentFunction > 0 THEN currentFunction ELSE currentFunction + 1

\* functions[currentFunction], as a position of the sequence functions
CurrentSlot == currentFunction + 1

\* void endFunction(uint8_t maxstacksize, uint8_t numupvalues, uint8_t flags)
endFunction(maxstacksize, numupvalues, flags) ==
    /\ Running
    /\ last' = Call("endFunction", <<maxstacksize, numupvalues, flags>>, 0)
    /\ IF currentFunction = NoFunction
       THEN /\ fault' = "endFunction: currentFunction != ~0u"
            /\ UNCHANGED <<functions, currentFunction, jumpVars, constants, constantMap,
                           tableVars, protoVars, debugVars, pc>>
       ELSE LET id == CurrentSlot
                func == [functions[id] EXCEPT !.maxstacksize = maxstacksize,
                                              !.numupvalues = numupvalues]
                v == validate(func, [functions EXCEPT ![id] = func])
                w == writeFunction(func, flags)
            IN  IF v # "none"
                THEN /\ fault' = v
                     /\ functions' = [functions EXCEPT ![id] = func]
                     /\ UNCHANGED <<currentFunction, jumpVars, constants, constantMap,
                                    tableVars, protoVars, debugVars, pc>>
                ELSE IF w.fault # "none"
                THEN /\ fault' = w.fault
                     /\ functions' = [functions EXCEPT ![id] = func]
                     /\ UNCHANGED <<currentFunction, jumpVars, constants, constantMap,
                                    tableVars, protoVars, debugVars, pc>>
                ELSE /\ functions' = [functions EXCEPT ![id] = WithData(func, w.data)]
                     /\ currentFunction' = NoFunction
                     /\ insns' = <<>> /\ lines' = <<>> /\ constants' = <<>>
                     /\ protos' = <<>> /\ jumps' = <<>> /\ tableShapes' = <<>>
                     /\ debugLocals' = <<>> /\ debugUpvals' = <<>>
                     /\ constantMap' = ClearMap(constantMap)
                     /\ tableShapeMap' = ClearMap(tableShapeMap)
                     /\ protoMap' = ClearMap(protoMap)
                     /\ pc' = "closed"
                     /\ UNCHANGED <<hasLongJumps, fault>>
    /\ UNCHANGED <<debugLine, stringTable, blobVars>>

\* void setMainFunction(uint32_t fid)
setMainFunction(fid) ==
    /\ Running
    /\ fid < Len(functions)
    /\ mainFunction' = fid
    /\ last' = Call("setMainFunction", <<fid>>, 0)
    /\ UNCHANGED <<functions, currentFunction, jumpVars, debugLine, constVars, tableVars,
                   protoVars, debugVars, userdataTypes, bytecode, pc, fault>>

\* size_t emitLabel()
emitLabel ==
    /\ Running
    /\ last' = Call("emitLabel", <<>>, Size(insns))
    /\ UNCHANGED <<functions, currentFunction, jumpVars, debugLine, constVars, tableVars,
                   protoVars, debugVars, blobVars, pc, fault>>

\* void setDebugLine(int line)
setDebugLine(line) ==
    /\ Running
    /\ debugLine' = line
    /\ last' = Call("setDebugLine", <<line>>, 0)
    /\ UNCHANGED <<functions, currentFunction, jumpVars, constVars, tableVars,
                   protoVars, debugVars, blobVars, pc, fault>>

\* void setDebugFunctionName(StringRef name); functions[currentFunction] with no
\* function open is a write outside the vector
setDebugFunctionName(name) ==
    /\ Running
    /\ LET r == addStringTableEntryResult(name)
       IN  /\ stringTable' = r.stringTable
           /\ last' = Call("setDebugFunctionName", <<name>>, 0)
           /\ IF currentFunction = NoFunction
              THEN /\ fault' = "setDebugFunctionName: functions[currentFunction]"
                   /\ UNCHANGED functions
              ELSE /\ functions' = [functions EXCEPT ![currentFunction + 1].debugname = r.index]
                   /\ UNCHANGED fault
    /\ UNCHANGED <<currentFunction, jumpVars, debugLine, constants, constantMap, tableVars,
                   protoVars, debugVars, blobVars, pc>>

\* void setDebugFunctionLineDefined(int line)
setDebugFunctionLineDefined(line) ==
    /\ Running
    /\ last' = Call("setDebugFunctionLineDefined", <<line>>, 0)
    /\ IF currentFunction = NoFunction
       THEN /\ fault' = "setDebugFunctionLineDefined: functions[currentFunction]"
            /\ UNCHANGED functions
       ELSE /\ functions' = [functions EXCEPT ![currentFunction + 1].debuglinedefined = line]
            /\ UNCHANGED fault
    /\ UNCHANGED <<currentFunction, jumpVars, debugLine, constVars, tableVars,
                   protoVars, debugVars, blobVars, pc>>

\* void pushDebugLocal(StringRef name, uint8_t reg, uint32_t startpc, uint32_t endpc)
pushDebugLocal(name, reg, startpc, endpc) ==
    /\ Running
    /\ LET r == addStringTableEntryResult(name)
       IN  /\ stringTable' = r.stringTable
           /\ debugLocals' = Append(debugLocals, [name |-> r.index, reg |-> reg,
                                                  startpc |-> startpc, endpc |-> endpc])
           /\ last' = Call("pushDebugLocal", <<name, reg, startpc, endpc>>, 0)
    /\ UNCHANGED <<functions, currentFunction, jumpVars, debugLine, constants, constantMap,
                   tableVars, protoVars, debugUpvals, blobVars, pc, fault>>

\* void pushDebugUpval(StringRef name)
pushDebugUpval(name) ==
    /\ Running
    /\ LET r == addStringTableEntryResult(name)
       IN  /\ stringTable' = r.stringTable
           /\ debugUpvals' = Append(debugUpvals, [name |-> r.index])
           /\ last' = Call("pushDebugUpval", <<name>>, 0)
    /\ UNCHANGED <<functions, currentFunction, jumpVars, debugLine, constants, constantMap,
                   tableVars, protoVars, debugLocals, blobVars, pc, fault>>

\* protoMap.find(fid): the cached id, -1 for nullptr
ProtoFind(m, fid) ==
    IF \E j \in DOMAIN m : fid >= m[j].fid /\ fid < m[j].fid + m[j].n
    THEN LET j == CHOOSE j \in DOMAIN m : fid >= m[j].fid /\ fid < m[j].fid + m[j].n
         IN  m[j].id + (fid - m[j].fid)
    ELSE -1

\* addChildFunctionResult without the test of the list size: what C27 tells from
\* addChildFunctionResult
addChildFunctionUnchecked(fid) ==
    LET cached == ProtoFind(protoMap, fid)
        id == ChildCount(protos)
    IN  IF cached >= 0 THEN [ret |-> cached, protos |-> protos, protoMap |-> protoMap]
        ELSE [ret |-> Int16(id), protos |-> Append(protos, [fid |-> fid, n |-> 1]),
              protoMap |-> Append(protoMap, [fid |-> fid, id |-> Int16(id), n |-> 1])]

\* int16_t addChildFunction(uint32_t fid)
addChildFunctionResult(fid) ==
    LET cached == ProtoFind(protoMap, fid)
        id == ChildCount(protos)
    IN  IF cached >= 0 THEN [ret |-> cached, protos |-> protos, protoMap |-> protoMap]
        ELSE IF id >= kMaxClosureCount
        THEN [ret |-> -1, protos |-> protos, protoMap |-> protoMap]
        ELSE [ret |-> Int16(id), protos |-> Append(protos, [fid |-> fid, n |-> 1]),
              protoMap |-> Append(protoMap, [fid |-> fid, id |-> Int16(id), n |-> 1])]

addChildFunction(fid) ==
    /\ Running
    /\ LET r == addChildFunctionResult(fid)
       IN  /\ protos' = r.protos
           /\ protoMap' = r.protoMap
           /\ last' = Call("addChildFunction", <<fid>>, r.ret)
    /\ UNCHANGED <<functions, currentFunction, jumpVars, debugLine, constVars, tableVars,
                   debugVars, blobVars, pc, fault>>

\* addChildFunction(fid), addChildFunction(fid + 1), ... addChildFunction(fid + n - 1)
\* for ids that are new, with room for all of them: n calls that each append;
\* ret is what the last of the calls returned
addChildFunctions(fid, n) ==
    /\ Running
    /\ ChildCount(protos) + n <= kMaxClosureCount
    /\ \A j \in DOMAIN protos : protos[j].fid + protos[j].n <= fid \/ protos[j].fid >= fid + n
    /\ protos' = Append(protos, [fid |-> fid, n |-> n])
    /\ protoMap' = Append(protoMap, [fid |-> fid, id |-> Int16(ChildCount(protos)), n |-> n])
    /\ last' = Call("addChildFunctions", <<fid, n>>, Int16(ChildCount(protos) + n - 1))
    /\ UNCHANGED <<functions, currentFunction, jumpVars, debugLine, constVars, tableVars,
                   debugVars, blobVars, pc, fault>>

\* the string with the index i
StringAt(table, i) == CHOOSE value \in DOMAIN table : table[value] = i

\* void writeStringTable(std::string& ss) const: the count, then the length and
\* the characters of every string in the order of the indices
RECURSIVE writeStringTableFrom(_, _)
writeStringTableFrom(table, i) ==
    IF i > Cardinality(DOMAIN table) THEN <<>>
    ELSE <<Bytes("strings", writeVarInt(Len(StringAt(table, i)))),
           Chars("strings", StringAt(table, i))>>
         \o writeStringTableFrom(table, i + 1)

writeStringTable(table) ==
    <<Bytes("strings", writeVarInt(Cardinality(DOMAIN table)))>>
    \o writeStringTableFrom(table, 1)

\* FunctionData with the last function first: what C22 tells from FunctionData
FunctionDataReversed(fs) == Concat([i \in 1..Len(fs) |-> fs[Len(fs) + 1 - i].data])

\* func.data of every function, in the order of the ids
RECURSIVE FunctionData(_)
FunctionData(fs) == IF Len(fs) = 0 THEN <<>> ELSE fs[1].data \o FunctionData(Tail(fs))

\* UserdataType ty with ty.name = name
UserdataType(name) == [name |-> name, nameRef |-> 0, used |-> FALSE]

\* uint32_t addUserdataType(const char* name)
addUserdataType(name) ==
    /\ Running
    /\ userdataTypes' = Append(userdataTypes, UserdataType(name))
    /\ last' = Call("addUserdataType", <<name>>, Len(userdataTypes))
    /\ UNCHANGED <<functions, currentFunction, jumpVars, debugLine, constVars, tableVars,
                   protoVars, debugVars, mainFunction, bytecode, pc, fault>>

\* void useUserdataType(uint32_t index)
useUserdataType(index) ==
    /\ Running
    /\ index < Len(userdataTypes)
    /\ userdataTypes' = [userdataTypes EXCEPT ![index + 1].used = TRUE]
    /\ last' = Call("useUserdataType", <<index>>, 0)
    /\ UNCHANGED <<functions, currentFunction, jumpVars, debugLine, constVars, tableVars,
                   protoVars, debugVars, mainFunction, bytecode, pc, fault>>

\* addStringTableEntry(value) on the table
addStringTableEntryIn(table, value) ==
    IF StringIndex(table, value) = 0
    THEN LET size == Cardinality(DOMAIN table) + 1
         IN  [index |-> size,
              stringTable |-> [v \in DOMAIN table \cup {value} |->
                                  IF v = value THEN size ELSE table[v]]]
    ELSE [index |-> StringIndex(table, value), stringTable |-> table]

\* finalize, first loop: ty.nameRef = addStringTableEntry(ty.name) for every used
\* type, from types[i] on
RECURSIVE InternUsedTypes(_, _, _)
InternUsedTypes(types, table, i) ==
    IF i > Len(types) THEN [types |-> types, stringTable |-> table]
    ELSE IF types[i].used
    THEN LET r == addStringTableEntryIn(table, types[i].name)
         IN  InternUsedTypes([types EXCEPT ![i].nameRef = r.index], r.stringTable, i + 1)
    ELSE InternUsedTypes(types, table, i + 1)

\* finalize, the mapping: writeByte(i + 1) and writeVarInt(nameRef) for
\* userdataTypes[i], types[i + 1] here
TypeMapping(types) ==
    [i \in 1..Len(types) |-> Bytes("types", writeByte(i) \o writeVarInt(types[i].nameRef))]

\* LBC_VERSION_TARGET of Luau/Bytecode.h
LBC_VERSION_TARGET == 6

\* uint8_t getVersion()
getVersion == LBC_VERSION_TARGET

\* getError without the marker byte: what C24 tells from getError
getErrorBare(message) == <<Chars("message", message)>>

\* std::string getError(const std::string& message)
getError(message) == <<Bytes("version", <<0>>), Chars("message", message)>>

\* a call of the static function getError
GetError(message) ==
    /\ Running
    /\ last' = Call("getError", <<message>>, getError(message))
    /\ UNCHANGED <<functions, currentFunction, jumpVars, debugLine, constVars, tableVars,
                   protoVars, debugVars, blobVars, pc, fault>>

\* void finalize()
finalize ==
    /\ Running
    /\ last' = Call("finalize", <<>>, 0)
    /\ IF Len(bytecode) # 0
       THEN /\ fault' = "finalize: bytecode.empty()"
            /\ UNCHANGED <<bytecode, userdataTypes, stringTable>>
       ELSE LET used == InternUsedTypes(userdataTypes, stringTable, 1)
                blob == <<Bytes("version", writeByte(getVersion)),
                         Enum("version", "LBC_TYPE_VERSION_TARGET")>>
                       \o writeStringTable(used.stringTable)
                       \o TypeMapping(used.types)
                       \o <<Bytes("types", writeByte(0)),
                            Bytes("functions", writeVarInt(Len(functions)))>>
                       \o FunctionData(functions)
            IN  /\ userdataTypes' = used.types
                /\ stringTable' = used.stringTable
                /\ IF mainFunction # NoFunction /\ mainFunction < Len(functions)
                   THEN /\ bytecode' = blob \o <<Bytes("main", writeVarInt(mainFunction))>>
                        /\ UNCHANGED fault
                   ELSE /\ bytecode' = blob
                        /\ fault' = "finalize: mainFunction < functions.size()"
    /\ UNCHANGED <<functions, currentFunction, jumpVars, debugLine, constants, constantMap,
                   tableVars, protoVars, debugVars, mainFunction, pc>>

-----------------------------------------------------------------------------
(* Inputs of the calls *)

Int16Max == 32767

\* the first id of the imports interned in bulk
BulkImport == 16

\* labels the caller holds: the first position of every run
Labels == {Base(insns, i) : i \in 1..Len(insns)}

\* offsets targetLabel - jumpLabel - 1 asked of patchJumpD: the edges of the D field
\* and of the maximum distance
PatchOffsets ==
    {-1, 0, 1, Int16Max, Int16Max + 1, -Int16Max - 1, -Int16Max - 2,
     kMaxJumpDistance - 1, kMaxJumpDistance, 1 - kMaxJumpDistance, -kMaxJumpDistance,
     -kMaxJumpDistance - 1}

\* offsets asked of patchSkipC: the edges of the C field
SkipOffsets == {-1, 0, 1, 255, 256}

\* offsets of the jumps that foldJumps follows
FoldOffsets == {-1, 0, 1, Int16Max, Int16Max + 1}

\* offsets of the jumps that expandJumps moves: the edges of the conservative
\* threshold, of the D field and of the maximum distance
ExpandOffsets ==
    {1, kMaxJumpDistanceConservative, kMaxJumpDistanceConservative + 1, Int16Max + 1,
     -Int16Max - 2, kMaxJumpDistance - 2, kMaxJumpDistance - 1}

-----------------------------------------------------------------------------
(* Specification of patchJumpD and patchSkipC *)

NextPatch ==
    \/ currentFunction = NoFunction /\ BeginFunction(0, FALSE)
    \/ Len(insns) < MaxPatchRuns /\ \E n \in {1, kMaxJumpDistance} : emitABC("NOP", 0, 0, 0, n)
    \/ Len(insns) < MaxPatchRuns /\ emitABC("LOADB", 0, 1, 0, 1)
    \/ Len(insns) < MaxPatchRuns /\ \E op \in {"JUMP", "JUMPIF"} : emitAD(op, 0, 0, 1)
    \/ \E j \in Labels : \E o \in PatchOffsets : patchJumpD(j, j + 1 + o, 1)
    \/ \E j \in Labels : \E o \in SkipOffsets : patchSkipC(j, j + 1 + o)

SpecPatch == Init /\ [][NextPatch]_vars

(* Specification of foldJumps *)

NextFold ==
    \/ currentFunction = NoFunction /\ BeginFunction(0, FALSE)
    \/ Len(insns) < MaxFoldRuns /\ \E n \in {1, Int16Max} : emitABC("NOP", 0, 0, 0, n)
    \/ Len(insns) < MaxFoldRuns /\ emitABC("RETURN", 0, 1, 0, 1)
    \/ Len(insns) < MaxFoldRuns /\ \E op \in {"JUMP", "JUMPIF"} : emitAD(op, 0, 0, 1)
    \/ \E j \in Labels : \E o \in FoldOffsets : patchJumpD(j, j + 1 + o, 1)
    \/ foldJumps

SpecFold == Init /\ [][NextFold]_vars

(* Specification of expandJumps *)

NextExpand ==
    \/ currentFunction = NoFunction /\ BeginFunction(0, FALSE)
    \/ Len(insns) < MaxExpandRuns /\ \E n \in {1, kMaxJumpDistance} : emitABC("NOP", 0, 0, 0, n)
    \/ Len(insns) < MaxExpandRuns
          /\ \E n \in {1, kMaxJumpDistanceConservative + 1} : emitAD("JUMPIF", 0, 0, n)
    \/ Len(insns) < MaxExpandRuns /\ \E op \in {"JUMP", "JUMPIFEQ"} : emitAD(op, 0, 0, 1)
    \/ Len(insns) < MaxExpandRuns /\ emitAux(Word("NOP", 0, 0, 0), 1)
    \/ \E j \in Labels : \E o \in ExpandOffsets :
          patchJumpD(j, j + 1 + o, insns[RunIndex(insns, j)].n)
    \/ expandJumps

SpecExpand == Init /\ [][NextExpand]_vars

(* Specification of the constant pool *)

\* doubles and floats passed to addConstantNumber and addConstantVector
PlusZero == [sign |-> 0, exp |-> 0, frac |-> <<0, 0, 0, 0>>]
MinusZero == [sign |-> 1, exp |-> 0, frac |-> <<0, 0, 0, 0>>]
PlusZeroF == [sign |-> 0, exp |-> 0, frac |-> <<0, 0>>]
MinusZeroF == [sign |-> 1, exp |-> 0, frac |-> <<0, 0>>]

\* table shapes passed to addConstantTable: keys holds the constant indices of the
\* keys, of which the first length are in use
Shapes ==
    {[keys |-> <<0, 0>>, length |-> 1], [keys |-> <<0, 1>>, length |-> 1],
     [keys |-> <<0, 1>>, length |-> 2]}

\* the call adds no run to the pool, or there is room for one
ConstCallFits(key) ==
    \/ MapFind(constantMap, key) >= 0
    \/ PoolFull(PoolSize(constants))
    \/ Len(constants) < MaxConstRuns

NextConst ==
    \/ currentFunction = NoFunction /\ BeginFunction(0, FALSE)
    \/ pc = "emit" /\ ConstCallFits(KeyNil) /\ addConstantNil
    \/ pc = "emit" /\ ConstCallFits(KeyBoolean(TRUE)) /\ addConstantBoolean(TRUE)
    \/ pc = "emit" /\ \E d \in {PlusZero, MinusZero} :
          ConstCallFits(KeyNumber(d)) /\ addConstantNumber(d)
    \/ pc = "emit" /\ \E w \in {PlusZeroF, MinusZeroF} :
          /\ ConstCallFits(KeyVector(PlusZeroF, PlusZeroF, PlusZeroF, w))
          /\ addConstantVector(PlusZeroF, PlusZeroF, PlusZeroF, w)
    \/ pc = "emit" /\ ConstCallFits(KeyString(addStringTableEntryResult("a").index))
          /\ addConstantString("a")
    \/ pc = "emit" /\ ConstCallFits(KeyImport(1)) /\ addImport(1, 1)
    \/ pc = "emit" /\ Len(constants) < MaxConstRuns
          /\ \E n \in {kMaxConstantCount - 2, kMaxConstantCount - 1} : addImport(BulkImport, n)
    \/ pc = "emit" /\ ConstCallFits(KeyClosure(1)) /\ addConstantClosure(1)
    \/ pc = "emit" /\ \E shape \in Shapes :
          /\ \/ ShapeFind(tableShapeMap, shape) >= 0
             \/ PoolFull(PoolSize(constants))
             \/ Len(constants) < MaxConstRuns
          /\ addConstantTable(shape)

SpecConst == Init /\ [][NextConst]_vars

(* Specification of the string table: the calls that intern a string, in     *)
(* two functions                                                             *)

Names == {"a", "b"}

MaxStringFunctions == 2   \* beginFunction calls
MaxStringCalls == 2       \* pool entries, debug names, locals and upvalues of one function

\* entries the open function holds that may refer to a string
StringCalls ==
    Len(constants) + Len(debugLocals) + Len(debugUpvals)
    + (IF functions[currentFunction + 1].debugname # 0 THEN 1 ELSE 0)

NextStrings ==
    \/ Len(functions) < MaxStringFunctions /\ currentFunction = NoFunction
          /\ BeginFunction(0, FALSE)
    \/ currentFunction # NoFunction /\ Len(insns) > 0 /\ endFunction(1, 0, 0)
    \/ Len(insns) = 0 /\ emitABC("RETURN", 0, 1, 0, 1)
    \/ pc = "emit" /\ StringCalls < MaxStringCalls
          /\ \E name \in Names : addConstantString(name)
    \/ pc = "emit" /\ StringCalls < MaxStringCalls /\ addImport(getImportId(0), 1)
    \/ pc = "emit" /\ StringCalls < MaxStringCalls
          /\ \E name \in Names : setDebugFunctionName(name)
    \/ pc = "emit" /\ StringCalls < MaxStringCalls
          /\ \E name \in Names : pushDebugLocal(name, 0, 0, 1)
    \/ pc = "emit" /\ StringCalls < MaxStringCalls
          /\ \E name \in Names : pushDebugUpval(name)

SpecStrings == Init /\ [][NextStrings]_vars

(* Specification of the scratch state of two functions: every list of the    *)
(* open function is filled, a jump is patched short or long, the function is *)
(* closed and the next one opened                                            *)

MaxScratchFunctions == 2   \* beginFunction calls
MaxScratchEntries == 1     \* entries of the pool, child, local and upvalue lists together
MaxLineInfo == 8           \* instructions of a function whose line table is written

\* entries of the lists of the open function
ScratchEntries ==
    Len(constants) + ChildCount(protos) + Len(debugLocals) + Len(debugUpvals)

\* the function has a line 0, or few enough instructions to write its line table
LineInfoFits == HasLines(lines) => Size(lines) <= MaxLineInfo

NextScratch ==
    \/ Len(functions) < MaxScratchFunctions /\ currentFunction = NoFunction
          /\ BeginFunction(0, FALSE)
    \/ currentFunction # NoFunction /\ Len(insns) > 0 /\ LineInfoFits /\ endFunction(1, 0, 0)
    \/ Len(insns) = 0 /\ emitAD("JUMP", 0, 0, 1)
    \/ Len(insns) = 1 /\ emitABC("LOADNIL", 0, 0, 0, Int16Max + 1)
    \/ \E j \in Labels : \E o \in {0, Int16Max + 1} : patchJumpD(j, j + 1 + o, 1)
    \/ pc = "emit" /\ debugLine = 0 /\ setDebugLine(1)
    \/ pc = "emit" /\ ScratchEntries < MaxScratchEntries /\ addConstantNil
    \/ pc = "emit" /\ ScratchEntries < MaxScratchEntries
          /\ addConstantTable([keys |-> <<0, 0>>, length |-> 1])
    \/ pc = "emit" /\ ScratchEntries < MaxScratchEntries /\ addChildFunction(0)
    \/ pc = "emit" /\ ScratchEntries < MaxScratchEntries /\ pushDebugLocal("a", 0, 0, 1)
    \/ pc = "emit" /\ ScratchEntries < MaxScratchEntries /\ pushDebugUpval("a")

SpecScratch == Init /\ [][NextScratch]_vars

(* Specification of the code of one function: debug lines, emits, labels,    *)
(* patches, foldJumps, expandJumps, endFunction                              *)

MaxCodeRuns == 2        \* emit calls (each of n equal words) into the function

\* debug lines passed to setDebugLine
CodeLines == {1, 2}

\* offsets of the jumps that are patched: to the next word, and a long one backwards
CodeOffsets == {0, -Int16Max - 2}

NextCode ==
    \/ functions = <<>> /\ currentFunction = NoFunction
          /\ BeginFunction(0, FALSE)
    \/ \E line \in CodeLines : debugLine # line /\ setDebugLine(line)
    \/ Len(insns) < MaxCodeRuns /\ \E n \in {1, Int16Max + 1} : emitABC("LOADNIL", 0, 0, 0, n)
    \/ Len(insns) < MaxCodeRuns /\ emitABC("RETURN", 0, 1, 0, 1)
    \/ Len(insns) < MaxCodeRuns /\ emitAD("JUMP", 0, 0, 1)
    \/ Len(insns) < MaxCodeRuns /\ emitE("COVERAGE", 0, 1)
    \/ Len(insns) < MaxCodeRuns /\ emitAux(Word("NOP", 0, 0, 1), 1)
    \/ pc = "emit" /\ last.op # "emitLabel" /\ emitLabel
    \/ \E j \in Labels : \E o \in CodeOffsets : patchJumpD(j, j + 1 + o, 1)
    \/ foldJumps
    \/ expandJumps
    \/ currentFunction # NoFunction /\ Len(insns) > 0 /\ LineInfoFits /\ endFunction(1, 0, 0)

SpecCode == Init /\ [][NextCode]_vars

(* Specification of the line table: one function of a few instructions with  *)
(* every sequence of debug lines, closed by endFunction                      *)

MaxLines == 5           \* instructions of the function

\* debug lines passed to setDebugLine: 2 and 257 fit one span, 1 and 257 do not,
\* 0 is "no line"
LineValues == {0, 1, 2, 257, 600}

NextLines ==
    \/ functions = <<>> /\ currentFunction = NoFunction
          /\ BeginFunction(0, FALSE)
    \/ pc = "emit" /\ \E line \in LineValues : debugLine # line /\ setDebugLine(line)
    \/ Size(insns) < MaxLines /\ emitABC("LOADNIL", Size(insns) % 2, 0, 0, 1)
    \/ currentFunction # NoFunction /\ Len(insns) > 0 /\ endFunction(2, 0, 0)

SpecLines == Init /\ [][NextLines]_vars

(* Specification of the functions of a compilation unit: beginFunction, the   *)
(* calls that fill the open function, endFunction, setMainFunction, finalize *)

MaxFunctions == 3     \* beginFunction calls
MaxUnitRuns == 1      \* emit calls into one function
MaxUnitEntries == 1   \* entries of the pool of one function

NextUnit ==
    \/ Len(functions) < MaxFunctions /\ BeginFunction(0, FALSE)
    \/ endFunction(1, 0, 0)
    \/ Len(insns) < MaxUnitRuns /\ emitABC("RETURN", 0, 1, 0, 1)
    \/ Len(insns) < MaxUnitRuns /\ emitAD("JUMP", 0, 0, 1)
    \/ \E j \in Labels : patchJumpD(j, j + 1, 1)
    \/ pc = "emit" /\ Len(constants) < MaxUnitEntries /\ addConstantNil
    \/ mainFunction = NoFunction /\ \E fid \in 0..(Len(functions) - 1) : setMainFunction(fid)
    \/ finalize

SpecUnit == Init /\ [][NextUnit]_vars

(* Specification of the blob: functions with debug names, userdata types,    *)
(* registered and used, setMainFunction, then finalize; getError             *)

MaxBlobFunctions == 2   \* beginFunction calls
MaxTypes == 2           \* addUserdataType calls

\* names of userdata types: "a" is also a debug name
TypeNames == {"a", "T"}

\* messages passed to getError
Messages == {"", "x"}

NextBlob ==
    \/ Len(functions) < MaxBlobFunctions /\ currentFunction = NoFunction
          /\ bytecode = <<>> /\ BeginFunction(0, FALSE)
    \/ currentFunction # NoFunction /\ Len(insns) > 0 /\ endFunction(1, 0, 0)
    \/ Len(insns) = 0 /\ emitABC("RETURN", 0, 1, 0, 1)
    \/ pc = "emit" /\ functions[currentFunction + 1].debugname = 0
          /\ setDebugFunctionName("a")
    \/ Len(userdataTypes) < MaxTypes /\ bytecode = <<>>
          /\ \E name \in TypeNames : addUserdataType(name)
    \/ bytecode = <<>> /\ \E index \in 0..(Len(userdataTypes) - 1) :
          ~userdataTypes[index + 1].used /\ useUserdataType(index)
    \/ mainFunction = NoFunction /\ bytecode = <<>> /\ \E fid \in 0..(Len(functions) - 1) : setMainFunction(fid)
    \/ finalize
    \/ last.op # "getError" /\ \E message \in Messages : GetError(message)

SpecBlob == Init /\ [][NextBlob]_vars

(* Specification of writeVarInt: the values around every power of two of    *)
(* the 32 bits                                                               *)

\* the unsigned values 2^j, 2^j - 1, 2^j + 1, 2^32 - 2^j and 2^32 - 2^j - 1, the ones
\* from 2^31 on as the negative number with the same 32 bits
VarIntValues ==
    {0, 2147483647, -2147483647 - 1}
    \cup UNION {{2^j, 2^j - 1, 2^j + 1, -(2^j), -(2^j) - 1} : j \in 0..30}

NextVarInt ==
    \E value \in VarIntValues : WriteVarInt(value)

SpecVarInt == Init /\ [][NextVarInt]_vars

(* Specification of the table constants of one function: shapes with the     *)
(* same keys in both orders, shapes that differ in length, and shapes that   *)
(* differ only in a key beyond their length                                  *)

TableShapes ==
    {[keys |-> <<0, 1>>, length |-> 2], [keys |-> <<1, 0>>, length |-> 2],
     [keys |-> <<0, 1>>, length |-> 1], [keys |-> <<0, 0>>, length |-> 1],
     [keys |-> <<1, 0>>, length |-> 1]}

NextTables ==
    \/ functions = <<>> /\ BeginFunction(0, FALSE)
    \/ pc = "emit" /\ Len(constants) = 0 /\ addConstantNil
    \/ pc = "emit" /\ \E shape \in TableShapes : addConstantTable(shape)

SpecTables == Init /\ [][NextTables]_vars

(* Specification of the child list of one function: single ids, and a run   *)
(* of ids that fills the list up to one or two entries below its limit       *)

BulkChild == 16   \* the first id of the run of children

\* ids passed to addChildFunction: three outside the run, one inside
ChildIds == {0, 1, 2, BulkChild}

NextProtos ==
    \/ functions = <<>> /\ BeginFunction(0, FALSE)
    \/ pc = "emit" /\ \E fid \in ChildIds : addChildFunction(fid)
    \/ pc = "emit" /\ \E n \in {kMaxClosureCount - 2, kMaxClosureCount - 1} :
          addChildFunctions(BulkChild, n)

SpecProtos == Init /\ [][NextProtos]_vars

(* Specification of the branches of one function: jumps, skips and fast     *)
(* calls, instructions of one and of two words, closed by endFunction        *)

MaxBranchRuns == 4      \* emit calls into the function

\* the words emitted: branches by -2, 0 and 1, an instruction with an auxiliary word
BranchWords ==
    {WordAD("JUMP", 0, d) : d \in {-2, 0, 1}}
    \cup {WordAD("JUMPIFEQ", 0, 1)}
    \cup {WordE("JUMPX", e) : e \in {-2, 0}}
    \cup {Word("LOADB", 0, 0, c) : c \in {0, 1}}
    \cup {Word("FASTCALL", 0, 0, c) : c \in {0, 1}}
    \cup {Word("CALL", 0, 1, 1), Word("GETGLOBAL", 0, 0, 0), Word("NOP", 0, 0, 0),
          Word("RETURN", 0, 1, 0)}

NextBranch ==
    \/ functions = <<>> /\ BeginFunction(0, FALSE)
    \/ pc = "emit" /\ constants = <<>> /\ insns = <<>> /\ addConstantString("a")
    \/ Len(insns) < MaxBranchRuns /\ \E w \in BranchWords : EmitWord("emit", w, 1)
    \/ currentFunction # NoFunction /\ Len(insns) > 0 /\ endFunction(1, 0, 0)

SpecBranch == Init /\ [][NextBranch]_vars

(* Specification of the variadic sequences of one function: producers,      *)
(* consumers, neutral and other instructions, jumps into a sequence, closed  *)
(* by endFunction                                                            *)

MaxVariadicRuns == 4    \* emit calls into the function

\* the words emitted: calls that consume or produce or both, GETVARARGS, RETURN and
\* SETLIST with a fixed and an open count, a fast call, a neutral and another
\* instruction, a skip and jumps forward and backward
VariadicWords ==
    {Word("CALL", 0, b, c) : b \in {0, 1}, c \in {0, 1}}
    \cup {Word("GETVARARGS", 0, b, 0) : b \in {0, 1}}
    \cup {Word("RETURN", 0, b, 0) : b \in {0, 1}}
    \cup {Word("FASTCALL", 0, 0, c) : c \in {0, 1}}
    \cup {WordAD("JUMP", 0, d) : d \in {-3, 1}}
    \cup {Word("SETLIST", 0, 0, 0), Word("NOP", 0, 0, 0), Word("MOVE", 0, 0, 0),
          Word("LOADNIL", 0, 0, 0), Word("LOADB", 0, 0, 1)}

NextVariadic ==
    \/ functions = <<>> /\ BeginFunction(0, FALSE)
    \/ Len(insns) < MaxVariadicRuns /\ \E w \in VariadicWords : EmitWord("emit", w, 1)
    \/ currentFunction # NoFunction /\ Len(insns) > 0 /\ endFunction(2, 0, 0)

SpecVariadic == Init /\ [][NextVariadic]_vars

(* Specification of the operands of one function: a pool of constants of     *)
(* every type, instructions with register, upvalue and constant operands,    *)
(* closed by endFunction with a stack size and an upvalue count              *)

MaxOperandRuns == 2     \* emit calls into the function
MaxOperandEntries == 2  \* entries of the pool

\* the words emitted: registers 0 .. 2, register ranges of 0 .. 2 registers, upvalues
\* and constants 0 and 1, the auxiliary words 0 and getImportId(0)
OperandWords ==
    {Word("MOVE", a, 0, 0) : a \in {0, 1, 2}}
    \cup {Word("CALL", 0, b, 1) : b \in {1, 2, 3}}
    \cup {Word("RETURN", 1, b, 0) : b \in {1, 2, 3}}
    \cup {Word("GETUPVAL", 0, b, 0) : b \in {0, 1}}
    \cup {Word("ADDK", 0, 0, c) : c \in {0, 1, 2}}
    \cup {Word("SUBRK", 0, b, 0) : b \in {0, 1}}
    \cup {WordAD(op, 0, d) : op \in {"LOADK", "GETIMPORT", "DUPTABLE", "DUPCLOSURE"},
                              d \in {0, 1}}
    \cup {WordAD(op, 0, -1) : op \in {"JUMPXEQKN", "JUMPXEQKS"}}
    \cup {Word("GETGLOBAL", 0, 0, 0), Word("NOP", 0, 0, 0), Word("NOP", 0, 0, 64)}

NextOperands ==
    \/ functions = <<>> /\ BeginFunction(0, FALSE)
    \/ pc = "emit" /\ insns = <<>> /\ PoolSize(constants) < MaxOperandEntries
          /\ \/ addConstantNil
             \/ addConstantNumber(PlusZero)
             \/ addConstantString("a")
             \/ addImport(getImportId(0), 1)
             \/ addConstantTable([keys |-> <<0, 0>>, length |-> 1])
             \/ addConstantClosure(0)
    \/ Len(insns) < MaxOperandRuns /\ \E w \in OperandWords : EmitWord("emit", w, 1)
    \/ currentFunction # NoFunction /\ Len(insns) > 0
          /\ \E maxstacksize \in {1, 2} : \E numupvalues \in {0, 1} :
                endFunction(maxstacksize, numupvalues, 0)

SpecOperands == Init /\ [][NextOperands]_vars

(* Specification of the import ids: getImportId on every chain of one, two   *)
(* or three of the ids below, and decomposeImportId on the value it returned *)

\* the ids of the chains: both ends of 0..1023 and the values around its middle bit
ImportIds == {0, 1, 2, 511, 512, 1023}

\* the chains of one, two or three ids
ImportChains ==
    {<<id0>> : id0 \in ImportIds}
    \cup {<<id0, id1>> : id0 \in ImportIds, id1 \in ImportIds}
    \cup {<<id0, id1, id2>> : id0 \in ImportIds, id1 \in ImportIds, id2 \in ImportIds}

NextImport ==
    \/ \E ids \in ImportChains : GetImportId(ids)
    \/ DecomposeImportId

SpecImport == Init /\ [][NextImport]_vars

(* Specification of the string hashes: getStringHash and luaS_hash on byte   *)
(* strings of every length up to MaxHashLen                                  *)

MaxHashLen == 33      \* bytes of a hashed string

\* the byte strings: byte i is first + i * step modulo 256
HashString(n, first, step) == [i \in 1..n |-> (first + i * step) % 256]

HashStrings ==
    {HashString(n, first, step) : n \in 0..MaxHashLen, first \in {97, 255}, step \in {0, 77}}

NextHash ==
    \/ \E key \in HashStrings : GetStringHash(key)
    \/ LuaSHash

SpecHash == Init /\ [][NextHash]_vars

(* Specification of foldJumps step by step: short functions of jumps, some   *)
(* of them backward, and a foldJumps that is always continued                *)

MaxFoldStepRuns == 3  \* emit calls before foldJumps taken step by step

\* offsets of the jumps: to the jump itself, to the word before it and forward
FoldStepOffsets == {-2, -1, 0, 1}

NextFoldSteps ==
    \/ currentFunction = NoFunction /\ BeginFunction(0, FALSE)
    \/ Len(insns) < MaxFoldStepRuns /\ emitABC("RETURN", 0, 1, 0, 1)
    \/ Len(insns) < MaxFoldStepRuns /\ \E a \in {0, 1} : emitAD("JUMP", a, 0, 1)
    \/ Len(insns) < MaxFoldStepRuns /\ emitAD("JUMPIF", 0, 0, 1)
    \/ \E j \in Labels : \E o \in FoldStepOffsets : patchJumpD(j, j + 1 + o, 1)
    \/ foldJumpsEnter
    \/ foldJumpsFollow
    \/ foldJumpsStore

\* a call of foldJumps runs on: the while loop and the body of the for loop are
\* sequential code
SpecFoldSteps ==
    Init /\ [][NextFoldSteps]_vars /\ WF_vars(foldJumpsFollow \/ foldJumpsStore)

-----------------------------------------------------------------------------
(* Properties *)

\* offset = targetLabel - jumpLabel - 1 of a call c of patchJumpD or patchSkipC
OffsetOf(c) == c.args[2] - c.args[1] - 1

\* the vectors old and new differ at position j at most
SameExceptAt(old, new, j) ==
    /\ Size(new) = Size(old)
    /\ Canon(Slice(new, 0, j)) = Canon(Slice(old, 0, j))
    /\ Canon(Slice(new, j + 1, Size(new))) = Canon(Slice(old, j + 1, Size(old)))

\* C1: with no long jump recorded, after foldJumps every recorded jump whose word
\* at source is still a branch has target = source + 1 + D, D the signed 16-bit
\* offset of that word, also when a chain of forward jumps makes the distance
\* larger than the patched one.
C1_Original ==
    (pc = "folded" /\ fault = "none" /\ ~hasLongJumps) =>
        \A k \in DOMAIN jumps :
            LET insn == At(insns, jumps[k].source)
            IN  isJumpD(INSN_OP(insn)) =>
                    jumps[k].target = jumps[k].source + 1 + INSN_D(insn)

\* C2: after expandJumps every recorded jump with |offset| > 32767/3 is the sequence
\* JUMP +1, JUMPX, OP: OP at remap[source] has D = -2, the word before it is JUMPX,
\* the word before that is JUMP with offset +1, and JUMPX resolves (its position
\* + 1 + E) to remap[target].
C2_Original ==
    (pc = "expanded" /\ fault = "none" /\ hasLongJumps) =>
        \A k \in DOMAIN jumps :
            Abs(jumps[k].target - jumps[k].source - 1) > 32767 \div 3 =>
                \A i \in {0, jumps[k].n - 1} :
                    LET p == Remap(jumps, jumps[k].source + i)
                    IN  /\ INSN_D(At(insns, p)) = -2
                        /\ INSN_OP(At(insns, p - 1)) = "JUMPX"
                        /\ INSN_OP(At(insns, p - 2)) = "JUMP"
                        /\ INSN_D(At(insns, p - 2)) = 1
                        /\ (p - 1) + 1 + INSN_E(At(insns, p - 1))
                               = Remap(jumps, jumps[k].target + i)

\* C3: one pass of expandJumps is enough: every recorded jump that gets no
\* trampoline (|offset| <= 32767/3) has a recomputed offset
\* remap[target] - remap[source] - 1 that fits the signed 16-bit D field, so the
\* assertion on the re-patched offset never fails.
C3_Original ==
    /\ fault # "expandJumps: int16_t(newoffset) == newoffset"
    /\ (pc = "expanded" /\ hasLongJumps /\ fault = "none") =>
           \A k \in DOMAIN jumps :
               Abs(jumps[k].target - jumps[k].source - 1) <= 32767 \div 3 =>
                   LET newoffset == Remap(jumps, jumps[k].target)
                                    - Remap(jumps, jumps[k].source) - 1
                   IN  -32768 <= newoffset /\ newoffset <= 32767

\* C4: patchJumpD(jumpLabel, targetLabel) with offset = targetLabel - jumpLabel - 1
\* in -32768 .. 32767 returns true, stores that offset in the D field of the word
\* at jumpLabel (opcode and A unchanged, no other word changed), appends the
\* record (jumpLabel, targetLabel) to the jump list and leaves hasLongJumps alone.
C4_PatchJumpDInRange ==
    [][(last'.op = "patchJumpD" /\ OffsetOf(last') >= -32768 /\ OffsetOf(last') <= 32767) =>
          LET j == last'.args[1]
          IN  /\ last'.ret = TRUE
              /\ INSN_D(At(insns', j)) = OffsetOf(last')
              /\ INSN_OP(At(insns', j)) = INSN_OP(At(insns, j))
              /\ At(insns', j).a = At(insns, j).a
              /\ SameExceptAt(insns, insns', j)
              /\ jumps' = Append(jumps, JumpRec(j, last'.args[2], 1))
              /\ hasLongJumps' = hasLongJumps]_vars

\* a negative offset has been stored: the jump at jumpLabel goes back to an
\* earlier label
C4_Witness ==
    /\ last.op = "patchJumpD" /\ last.ret = TRUE
    /\ OffsetOf(last) = -32768
    /\ INSN_D(At(insns, last.args[1])) = -32768
    /\ ~hasLongJumps

\* C5: before foldJumps and expandJumps, hasLongJumps is true exactly if some
\* recorded jump has an offset target - source - 1 outside -32768 .. 32767; every
\* such jump is within the maximum distance 2^23 and the word at its source still
\* has D = 0.
C5_Original ==
    pc = "emit" =>
        /\ hasLongJumps <=>
               \E k \in DOMAIN jumps :
                   LET offset == jumps[k].target - jumps[k].source - 1
                   IN  offset < -32768 \/ offset > 32767
        /\ \A k \in DOMAIN jumps :
               LET offset == jumps[k].target - jumps[k].source - 1
               IN  (offset < -32768 \/ offset > 32767) =>
                       /\ Abs(offset) <= kMaxJumpDistance
                       /\ INSN_D(At(insns, jumps[k].source)) = 0

\* C6, as written: patchJumpD returns false exactly when |offset| exceeds 2^23,
\* and a call that returns false changes no word, no jump record and not
\* hasLongJumps.
C6_Original ==
    [][last'.op = "patchJumpD" =>
          /\ (last'.ret = FALSE) <=> (Abs(OffsetOf(last')) > kMaxJumpDistance)
          /\ last'.ret = FALSE =>
                 insns' = insns /\ jumps' = jumps /\ hasLongJumps' = hasLongJumps]_vars

\* C6, amended: patchJumpD returns false exactly when |offset| is 2^23 or more
\* (the largest distance it accepts is 2^23 - 1), and a call that returns false
\* changes no word, no jump record and not hasLongJumps.
C6_PatchJumpDFails ==
    [][last'.op = "patchJumpD" =>
          /\ (last'.ret = FALSE) <=> (Abs(OffsetOf(last')) >= kMaxJumpDistance)
          /\ last'.ret = FALSE =>
                 insns' = insns /\ jumps' = jumps /\ hasLongJumps' = hasLongJumps]_vars

\* patchJumpD has refused the distance 2^23 itself
C6_Witness ==
    /\ last.op = "patchJumpD" /\ last.ret = FALSE
    /\ Abs(OffsetOf(last)) = kMaxJumpDistance
    /\ jumps = <<>> /\ ~hasLongJumps

\* C7: patchSkipC(jumpLabel, targetLabel) returns true exactly if
\* targetLabel - jumpLabel - 1 is in 0 .. 255; then it stores that value in the C
\* field of the word at jumpLabel and changes nothing else (no jump record);
\* when it returns false the instruction stream is unchanged.
C7_PatchSkipC ==
    [][last'.op = "patchSkipC" =>
          LET j == last'.args[1]
              offset == OffsetOf(last')
          IN  /\ (last'.ret = TRUE) <=> (0 <= offset /\ offset <= 255)
              /\ last'.ret = TRUE =>
                     /\ INSN_C(At(insns', j)) = offset
                     /\ INSN_OP(At(insns', j)) = INSN_OP(At(insns, j))
                     /\ At(insns', j).a = At(insns, j).a
                     /\ At(insns', j).b = At(insns, j).b
                     /\ SameExceptAt(insns, insns', j)
              /\ last'.ret = FALSE => insns' = insns
              /\ jumps' = jumps /\ hasLongJumps' = hasLongJumps /\ lines' = lines]_vars

\* the largest skip has been stored
C7_Witness ==
    /\ last.op = "patchSkipC" /\ last.ret = TRUE
    /\ OffsetOf(last) = 255
    /\ INSN_C(At(insns, last.args[1])) = 255

\* C8: the same patch (jumpLabel, targetLabel) applied a second time succeeds and
\* leaves the instruction words, the jump list and hasLongJumps as the first
\* application left them.
C8_Original ==
    [][(/\ last.op \in {"patchJumpD", "patchSkipC"} /\ last.ret = TRUE
        /\ last'.op = last.op /\ last'.args = last.args) =>
          /\ last'.ret = TRUE
          /\ insns' = insns /\ jumps' = jumps /\ hasLongJumps' = hasLongJumps]_vars

\* the calls that intern a constant
IsConstCall(c) ==
    c.op \in {"addConstantNil", "addConstantBoolean", "addConstantNumber",
              "addConstantVector", "addConstantString", "addImport", "addConstantClosure"}

\* the constant, type tag and value, that the call c (the last of its n calls)
\* interns; table is the string table after the call
CallConstant(c, table) ==
    CASE c.op = "addConstantNil" -> Constant("Nil", 0)
      [] c.op = "addConstantBoolean" -> Constant("Boolean", c.args[1])
      [] c.op = "addConstantNumber" -> Constant("Number", c.args[1])
      [] c.op = "addConstantVector" -> Constant("Vector", c.args)
      [] c.op = "addConstantString" -> Constant("String", StringIndex(table, c.args[1]))
      [] c.op = "addImport" -> Constant("Import", c.args[1] + c.args[2] - 1)
      [] c.op = "addConstantClosure" -> Constant("Closure", c.args[1])

\* entries the pool holds when the last of the n calls of c starts
SizeBefore(c, cs) == PoolSize(cs) + (IF c.op = "addImport" THEN c.args[2] - 1 ELSE 0)

\* the index in the pool cs of the constant c, -1 if cs does not hold it
RECURSIVE PoolIndexFrom(_, _, _, _)
PoolIndexFrom(cs, c, i, base) ==
    IF i > Len(cs) THEN -1
    ELSE IF cs[i].c.type = c.type /\ cs[i].n = 1 /\ cs[i].c.value = c.value THEN base
    ELSE IF cs[i].c.type = c.type /\ cs[i].n > 1 /\ c.value - cs[i].c.value \in 0..(cs[i].n - 1)
         THEN base + c.value - cs[i].c.value
    ELSE PoolIndexFrom(cs, c, i + 1, base + cs[i].n)

PoolIndex(cs, c) == PoolIndexFrom(cs, c, 1, 0)

\* C9, as written: interning a constant returns the index it returned before and
\* adds nothing exactly if the same type tag and value bits were interned before
\* in this function; otherwise it returns the pool size and the pool grows by
\* one; constants that differ in type tag or in a value bit never share an index.
C9_Original ==
    [][IsConstCall(last') =>
          LET c == CallConstant(last', stringTable')
              before == SizeBefore(last', constants)
          IN  IF PoolIndex(constants, c) >= 0
              THEN last'.ret = PoolIndex(constants, c) /\ constants' = constants
              ELSE /\ last'.ret = before
                   /\ PoolSize(constants') = before + 1
                   /\ PoolIndex(constants', c) = before]_vars

\* C9, amended: as C9, but a constant that was not interned before gets the pool
\* size as its index, and grows the pool by one, only while the pool holds fewer
\* than 2^23 entries; with 2^23 entries the call returns -1 and adds nothing.
C9_Interning ==
    [][IsConstCall(last') =>
          LET c == CallConstant(last', stringTable')
              before == SizeBefore(last', constants)
          IN  IF PoolIndex(constants, c) >= 0
              THEN last'.ret = PoolIndex(constants, c) /\ constants' = constants
              ELSE IF before < kMaxConstantCount
              THEN /\ last'.ret = before
                   /\ PoolSize(constants') = before + 1
                   /\ PoolIndex(constants', c) = before
              ELSE last'.ret = -1 /\ constants' = constants]_vars

\* -0.0 has been interned a second time and got its first index back, which is
\* not the index of +0.0
C9_Witness ==
    /\ last.op = "addConstantNumber" /\ last.args[1] = MinusZero
    /\ last.ret = PoolIndex(constants, Constant("Number", MinusZero))
    /\ last.ret < PoolSize(constants) - 1
    /\ PoolIndex(constants, Constant("Number", PlusZero)) >= 0
    /\ PoolIndex(constants, Constant("Number", PlusZero)) # last.ret

\* C10, as written: interning the 2^23-th distinct constant of a function
\* returns -1, interning the (2^23 - 1)-th succeeds.
C10_Original ==
    [][(IsConstCall(last') /\ PoolIndex(constants, CallConstant(last', stringTable')) < 0) =>
          LET before == SizeBefore(last', constants)
          IN  /\ before = kMaxConstantCount - 1 => last'.ret = -1
              /\ before = kMaxConstantCount - 2 => last'.ret = before]_vars

\* C10, amended: interning the (2^23 + 1)-th distinct constant of a function
\* returns -1 and adds nothing; interning the 2^23-th and the (2^23 - 1)-th
\* succeeds and returns the index 2^23 - 1 and 2^23 - 2.
C10_Capacity ==
    [][(IsConstCall(last') /\ PoolIndex(constants, CallConstant(last', stringTable')) < 0) =>
          LET before == SizeBefore(last', constants)
          IN  /\ before = kMaxConstantCount => last'.ret = -1 /\ constants' = constants
              /\ before = kMaxConstantCount - 1 =>
                     last'.ret = before /\ PoolSize(constants') = kMaxConstantCount
              /\ before = kMaxConstantCount - 2 => last'.ret = before]_vars

\* a constant that the full pool does not hold has been refused
C10_Witness ==
    /\ IsConstCall(last) /\ last.ret = -1
    /\ PoolSize(constants) = kMaxConstantCount
    /\ PoolIndex(constants, CallConstant(last, stringTable)) < 0

\* the calls that intern a constant or a table constant
IsInternCall(c) == IsConstCall(c) \/ c.op = "addConstantTable"

\* the pool cs, with the table shapes ts, holds the constant that the call c interns
InternedBefore(c, cs, ts, table) ==
    IF c.op = "addConstantTable"
    THEN \E i \in DOMAIN ts : ShapeEq(ts[i], c.args[1])
    ELSE PoolIndex(cs, CallConstant(c, table)) >= 0

\* C11: the pool never holds more than 2^23 entries, table constants included; an
\* intern call (addConstant or addConstantTable) for a key that is not present
\* in a pool of 2^23 entries returns -1; a call that returns -1 leaves the pool,
\* the constant map, the table-shape list and the table-shape map unchanged; a
\* call for a key that is present succeeds when the pool is full.
C11_PoolCap ==
    /\ [](PoolSize(constants) <= kMaxConstantCount)
    /\ [][IsInternCall(last') =>
            /\ (/\ SizeBefore(last', constants) >= kMaxConstantCount
                /\ ~InternedBefore(last', constants, tableShapes, stringTable'))
                  => last'.ret = -1
            /\ last'.ret = -1 =>
                  /\ constants' = constants /\ constantMap' = constantMap
                  /\ tableShapes' = tableShapes /\ tableShapeMap' = tableShapeMap
            /\ InternedBefore(last', constants, tableShapes, stringTable')
                  => last'.ret >= 0 /\ constants' = constants]_vars

\* a table shape that the full pool does not hold has been refused, and the pool
\* holds a table constant
C11_Witness ==
    /\ last.op = "addConstantTable" /\ last.ret = -1
    /\ PoolSize(constants) = kMaxConstantCount
    /\ Len(tableShapes) > 0
    /\ ~InternedBefore(last, constants, tableShapes, stringTable)

\* the calls that intern a string
IsStringCall(c) ==
    c.op \in {"addConstantString", "setDebugFunctionName", "pushDebugLocal", "pushDebugUpval"}

\* the index the call c has stored for its string: in the constant it returned,
\* in the open function's debugname, in the last debug local or upvalue
StoredIndex(c, fs, cur, cs, locals, upvals) ==
    CASE c.op = "addConstantString" -> ConstantAt(cs, c.ret).value
      [] c.op = "setDebugFunctionName" -> fs[cur + 1].debugname
      [] c.op = "pushDebugLocal" -> locals[Len(locals)].name
      [] c.op = "pushDebugUpval" -> upvals[Len(upvals)].name

\* C12: the string table maps the strings interned so far one-to-one onto
\* 1..n, and 0 is never an index; a call that interns a string which is present
\* stores its existing index and leaves the table as it is, a call that interns
\* a new one gives it n + 1, whichever call (string constant, debug function
\* name, debug local, debug upvalue) and function; no call, endFunction
\* included, removes or renumbers an entry.
C12_StringTable ==
    /\ [](LET n == Cardinality(DOMAIN stringTable)
          IN  /\ \A value \in DOMAIN stringTable : stringTable[value] \in 1..n
              /\ \A i \in 1..n : \E value \in DOMAIN stringTable : stringTable[value] = i)
    /\ [][/\ \A value \in DOMAIN stringTable :
               value \in DOMAIN stringTable' /\ stringTable'[value] = stringTable[value]
          /\ (IsStringCall(last') /\ fault' = "none") =>
               LET value == last'.args[1]
                   index == StoredIndex(last', functions', currentFunction', constants',
                                        debugLocals', debugUpvals')
               IN  IF value \in DOMAIN stringTable
                   THEN index = stringTable[value] /\ stringTable' = stringTable
                   ELSE /\ index = Cardinality(DOMAIN stringTable) + 1
                        /\ DOMAIN stringTable' = DOMAIN stringTable \cup {value}
                        /\ stringTable'[value] = index
          /\ ~IsStringCall(last') => stringTable' = stringTable]_vars

\* the second function names an upvalue by a string that the first function
\* interned, and the upvalue holds the index 1 of a table of two strings
C12_Witness ==
    /\ Len(functions) = 2 /\ currentFunction = 1
    /\ functions[1].debugname = 1
    /\ last.op = "pushDebugUpval" /\ debugUpvals[1].name = 1
    /\ Cardinality(DOMAIN stringTable) = 2

\* C13, as written: after addImport the names of the import chain (here the one
\* name id0 of an id made by getImportId(id0)) are entries of the string table:
\* the pool holds a string constant at id0, and its string index is an index of
\* the string table.
C13_Original ==
    [][(last'.op = "addImport" /\ last'.ret >= 0) =>
          LET d == decomposeImportId(last'.args[1])
          IN  d.count > 0 =>
                 /\ d.id0 < PoolSize(constants')
                 /\ ConstantAt(constants', d.id0).type = "String"
                 /\ \E value \in DOMAIN stringTable' :
                        stringTable'[value] = ConstantAt(constants', d.id0).value]_vars

\* C13, amended: addImport leaves the string table as it is (the key of an
\* import is its packed id), whereas addConstantString(value) leaves value in
\* the string table, at the index that the string constant it returns holds.
C13_ImportKey ==
    [][/\ last'.op = "addImport" => stringTable' = stringTable
       /\ (last'.op = "addConstantString" /\ last'.ret >= 0) =>
             /\ last'.args[1] \in DOMAIN stringTable'
             /\ ConstantAt(constants', last'.ret)
                   = Constant("String", stringTable'[last'.args[1]])]_vars

\* an import with one name has been interned into the pool of a builder whose
\* string table is empty
C13_Witness ==
    /\ last.op = "addImport" /\ last.ret >= 0
    /\ decomposeImportId(last.args[1]).count = 1
    /\ ConstantAt(constants, last.ret) = Constant("Import", last.args[1])
    /\ Cardinality(DOMAIN stringTable) = 0

\* C14: beginFunction returns the number of functions created before it, so the
\* ids are 0, 1, 2, ... and none is returned twice; the function it opens is the
\* new last entry of the function table, and no call shortens the table.
C14_FunctionIds ==
    [][/\ Len(functions') >= Len(functions)
       /\ (last'.op = "beginFunction" /\ fault' = "none") =>
             /\ last'.ret = Len(functions)
             /\ Len(functions') = Len(functions) + 1
             /\ currentFunction' = last'.ret
             /\ \A i \in 1..Len(functions) : functions'[i] = functions[i]]_vars

\* the third beginFunction has returned 2; the functions 0 and 1 are closed
C14_Witness ==
    /\ last.op = "beginFunction" /\ last.ret = 2 /\ fault = "none"
    /\ Len(functions) = 3 /\ currentFunction = 2
    /\ functions[1].data # <<>> /\ functions[2].data # <<>>

\* functions whose record has not been written: positions of the function table
Unwritten == {i \in 1..Len(functions) : Len(functions[i].data) = 0}

\* records written into the data of the function at position i
RecordsOf(i) ==
    Cardinality({k \in 1..Len(functions[i].data) : functions[i].data[k].part = "header"})

\* C15: at most one function is open: the only function without a written
\* record is the open one, and no function holds two records; beginFunction
\* with a function open and endFunction with none open fail their assertion
\* and leave the function table and the open function as they are.
C15_OneOpen ==
    /\ [](/\ Unwritten \subseteq {currentFunction + 1}
          /\ \A i \in 1..Len(functions) : RecordsOf(i) <= 1)
    /\ [][/\ (last'.op = "beginFunction" /\ currentFunction # NoFunction) =>
               /\ fault' # "none"
               /\ functions' = functions /\ currentFunction' = currentFunction
          /\ (last'.op = "endFunction" /\ currentFunction = NoFunction) =>
               /\ fault' # "none"
               /\ functions' = functions /\ currentFunction' = currentFunction]_vars

\* endFunction has been called a second time for a function that is closed
C15_Witness ==
    /\ fault = "endFunction: currentFunction != ~0u"
    /\ last.op = "endFunction"
    /\ currentFunction = NoFunction
    /\ Len(functions) >= 1 /\ RecordsOf(Len(functions)) = 1

\* the vectors and maps of the open function are empty
ScratchEmpty(ins, ls, cs, cm, ps, pm, js, ts, tm, locals, upvals) ==
    /\ Len(ins) = 0 /\ Len(ls) = 0 /\ Len(cs) = 0 /\ Len(cm) = 0 /\ Len(ps) = 0
    /\ Len(pm) = 0 /\ Len(js) = 0 /\ Len(ts) = 0 /\ Len(tm) = 0
    /\ Len(locals) = 0 /\ Len(upvals) = 0

\* C16: endFunction leaves no function open and the instructions, lines, pool,
\* constant map, child list and map, jump list, table-shape list and map, debug
\* locals and upvalues empty, and keeps the string table and the length of the
\* function table; beginFunction sets hasLongJumps to false and debugLine to 0
\* and finds the lists still empty; the first constant and the first child of
\* the function it opens get the index 0.
C16_ScratchReset ==
    [][/\ (last'.op = "endFunction" /\ fault' = "none") =>
             /\ currentFunction' = NoFunction
             /\ ScratchEmpty(insns', lines', constants', constantMap', protos', protoMap',
                             jumps', tableShapes', tableShapeMap', debugLocals', debugUpvals')
             /\ stringTable' = stringTable
             /\ Len(functions') = Len(functions)
       /\ (last'.op = "beginFunction" /\ fault' = "none") =>
             /\ hasLongJumps' = FALSE /\ debugLine' = 0
             /\ ScratchEmpty(insns', lines', constants', constantMap', protos', protoMap',
                             jumps', tableShapes', tableShapeMap', debugLocals', debugUpvals')
       /\ (last.op = "beginFunction" /\ IsInternCall(last')) => last'.ret = 0
       /\ (last.op = "beginFunction" /\ last'.op = "addChildFunction") => last'.ret = 0]_vars

\* the second function has interned the table shape that the first function
\* interned, and it got the index 0 again
C16_Witness ==
    /\ Len(functions) = 2 /\ currentFunction = 1
    /\ \E k \in 1..Len(functions[1].data) : functions[1].data[k].sym = "LBC_CONSTANT_TABLE"
    /\ last.op = "addConstantTable" /\ last.ret = 0
    /\ Len(tableShapes) = 1 /\ Len(tableShapeMap) = 1

\* the calls that emit a word
IsEmitCall(c) == c.op \in {"emitABC", "emitAD", "emitE", "emitAux"}

\* the runs of ins that are trampolines: positions of the sequence ins
TrampRuns(ins) == {i \in 1..Len(ins) : ins[i].k = "tramp"}

\* C17: the line array is as long as the instruction array in every state; an
\* emit call (n times the word w) appends n words w and n lines equal to the
\* current debug line and keeps what was there; setDebugLine sets the debug
\* line and beginFunction sets it to 0; emitLabel returns the instruction count
\* and changes nothing; patchJumpD, patchSkipC and foldJumps keep the lines;
\* expandJumps adds as many lines as words, and the words of a trampoline have
\* the line of the branch they were inserted for.
C17_LinesParallel ==
    /\ [](Size(lines) = Size(insns))
    /\ [][/\ IsEmitCall(last') =>
               LET w == last'.args[1]
                   n == last'.args[2]
                   old == Size(insns)
               IN  /\ Size(insns') = old + n /\ Size(lines') = old + n
                   /\ Canon(Slice(insns', 0, old)) = Canon(insns)
                   /\ Canon(Slice(lines', 0, old)) = Canon(lines)
                   /\ Canon(Slice(insns', old, old + n)) = <<Rep(w, n)>>
                   /\ Canon(Slice(lines', old, old + n)) = <<Rep(debugLine, n)>>
          /\ last'.op = "setDebugLine" => debugLine' = last'.args[1]
          /\ (last'.op = "beginFunction" /\ fault' = "none") => debugLine' = 0
          /\ last'.op = "emitLabel" =>
               /\ last'.ret = Size(insns)
               /\ insns' = insns /\ lines' = lines /\ jumps' = jumps
               /\ debugLine' = debugLine
          /\ last'.op \in {"patchJumpD", "patchSkipC", "foldJumps"} =>
               Size(insns') = Size(insns) /\ lines' = lines
          /\ (last'.op = "expandJumps" /\ fault' = "none") =>
               /\ Size(lines') - Size(lines) = Size(insns') - Size(insns)
               /\ \A i \in TrampRuns(insns') :
                     \A q \in {0, 1, 2, 3 * insns'[i].n - 1} :
                        At(lines', Base(insns', i) + q)
                          = At(lines, insns'[i].v.source + (q \div 3))]_vars

\* expandJumps has inserted a trampoline for a branch of line 2 after words of
\* line 1, and the three words of the trampoline have line 2
C17_Witness ==
    /\ last.op = "expandJumps" /\ fault = "none"
    /\ \E i \in TrampRuns(insns) :
          /\ At(lines, Base(insns, i)) = 2 /\ At(lines, Base(insns, i) + 2) = 2
          /\ At(lines, 0) = 1
    /\ Size(lines) = Int16Max + 4

\* C18: the record of a function that endFunction has written is never changed
\* by a later call.
C18_RecordFrozen ==
    [][\A i \in 1..Len(functions) :
          Len(functions[i].data) > 0 => functions'[i].data = functions[i].data]_vars

\* finalize has run after three functions, the second with a patched jump and a
\* constant, were written
C18_Witness ==
    /\ last.op = "finalize" /\ fault = "none" /\ Len(bytecode) > 0
    /\ Len(functions) = 3
    /\ \A i \in 1..3 : RecordsOf(i) = 1
    /\ functions[1].data # functions[2].data

\* the instruction words of a function record
CodeOf(data) == data[CHOOSE k \in 1..Len(data) : Len(data[k].runs) > 0].runs

\* C19, as written: a function that is closed by endFunction alone, with no
\* foldJumps or expandJumps call of the caller before, is serialized with the
\* instruction words that foldJumps and then expandJumps make of its code (the
\* jump chains folded when it has no long jump, the long jumps expanded into
\* trampolines when it has).
C19_Original ==
    [][(last'.op = "endFunction" /\ fault' = "none" /\ pc = "emit") =>
          LET passes == IF hasLongJumps THEN expandJumpsResult ELSE foldJumpsResult
          IN  passes.fault = "none" =>
                 Canon(CodeOf(functions'[currentFunction + 1].data)) = Canon(passes.insns)]_vars

\* the bytes of the line table of a function record: the flag, then what
\* writeLineInfo wrote
LinesOf(data) == data[CHOOSE k \in 1..Len(data) : data[k].part = "lines"].b

\* the int of four bytes, lowest first
ReadInt(b, at) ==
    IF b[at + 3] < 128
    THEN b[at] + 256 * b[at + 1] + 65536 * b[at + 2] + 16777216 * b[at + 3]
    ELSE (b[at] + 256 * b[at + 1] + 65536 * b[at + 2] + 16777216 * (b[at + 3] - 128))
         - 2147483647 - 1

\* delta[i]: the sum modulo 256 of the first i + 1 per-instruction bytes of the
\* line table b (b[1] is the flag, b[2] the logspan)
RECURSIVE DecodedDelta(_, _)
DecodedDelta(b, i) == IF i < 0 THEN 0 ELSE (DecodedDelta(b, i - 1) + b[3 + i]) % 256

\* baseline[k]: the sum of the first k + 1 differences of the line table b of n
\* instructions
RECURSIVE DecodedBaseline(_, _, _)
DecodedBaseline(b, n, k) ==
    IF k < 0 THEN 0 ELSE DecodedBaseline(b, n, k - 1) + ReadInt(b, 3 + n + 4 * k)

\* line[i] = baseline[i >> logspan] + delta[i], for the n instructions
DecodedLines(b, n) ==
    [p \in 1..n |-> DecodedBaseline(b, n, (p - 1) \div 2^b[2]) + DecodedDelta(b, p - 1)]

\* C20: for a function with at least one instruction and no line 0, every line
\* minus the baseline of its span is within 0..255 (writeLineInfo's assertion
\* holds), the line table has one byte per instruction and one 32-bit
\* difference per span, and decoding it gives back every line.
C20_LineTable ==
    [][(last'.op = "endFunction" /\ Size(lines) > 0 /\ HasLines(lines)) =>
          /\ fault' = "none"
          /\ LET b == LinesOf(functions'[currentFunction + 1].data)
                 n == Size(lines)
             IN  /\ b[1] = 1
                 /\ Len(b) = 2 + n + 4 * (((n - 1) \div 2^b[2]) + 1)
                 /\ DecodedLines(b, n) = Flat(lines)]_vars

\* a line table with spans of two instructions has been written for lines
\* that go down: the last baseline difference is negative
C20_Witness ==
    /\ last.op = "endFunction" /\ fault = "none" /\ Len(functions) = 1
    /\ LET b == LinesOf(functions[1].data)
       IN  /\ b[1] = 1 /\ b[2] = 1
           /\ Len(b) >= 2 + 4 + 8
           /\ b[Len(b)] = 255

\* C21: the line section of a function record is the flag byte 1 followed by the
\* encoded table when no entry of lines is 0, and the flag byte 0 alone when
\* some entry of lines is 0.
C21_LineFlag ==
    [][(last'.op = "endFunction" /\ currentFunction # NoFunction /\ fault' = "none") =>
          LET ls == Flat(lines)
              b == LinesOf(functions'[currentFunction + 1].data)
          IN  IF \E i \in 1..Len(ls) : ls[i] = 0
              THEN b = <<0>>
              ELSE /\ Len(b) > 2 /\ b[1] = 1
                   /\ DecodedLines(b, Len(ls)) = ls]_vars

\* a function of three instructions, one of them emitted with line 0, has been
\* closed with the flag 0 alone
C21_Witness ==
    /\ last.op = "endFunction" /\ fault = "none" /\ Len(functions) = 1
    /\ LinesOf(functions[1].data) = <<0>>
    /\ LET code == CodeOf(functions[1].data) IN Size(code) = 3
    /\ debugLine = 2

\* the number of items of the records of the first i functions
RECURSIVE DataStart(_, _)
DataStart(fs, i) == IF i = 0 THEN 0 ELSE DataStart(fs, i - 1) + Len(fs[i].data)

\* C22: the blob finalize writes is, in this order and with nothing else: the
\* version byte, the type-encoding version byte, the count of the string table and
\* for k = 1..n the length and the characters of the string with the index k, one
\* entry per userdata type and the byte 0, the count of the functions, the
\* record of every function in the order of the ids, and the index of the main
\* function.
C22_BlobLayout ==
    [][(last'.op = "finalize" /\ fault' = "none") =>
          LET b == bytecode'
              n == Cardinality(DOMAIN stringTable')
              t == Len(userdataTypes')
              f == Len(functions)
              T0 == 3 + 2 * n
              F0 == T0 + t + 2
          IN  /\ Len(b) = F0 + DataStart(functions, f) + 1
              /\ b[1].part = "version" /\ Len(b[1].b) = 1
              /\ b[2] = Enum("version", "LBC_TYPE_VERSION_TARGET")
              /\ b[3].b = writeVarInt(n)
              /\ \A k \in 1..n :
                    /\ b[3 + 2 * k].sym \in DOMAIN stringTable'
                    /\ stringTable'[b[3 + 2 * k].sym] = k
                    /\ b[2 + 2 * k].b = writeVarInt(Len(b[3 + 2 * k].sym))
              /\ \A i \in 1..t : b[T0 + i].part = "types" /\ b[T0 + i].b[1] = i
              /\ b[T0 + t + 1] = Bytes("types", <<0>>)
              /\ b[F0].b = writeVarInt(f)
              /\ \A i \in 1..f :
                    SubSeq(b, F0 + DataStart(functions, i - 1) + 1,
                           F0 + DataStart(functions, i)) = functions[i].data
              /\ b[Len(b)].b = writeVarInt(mainFunction)]_vars

\* finalize has written a blob of two functions with different records, the
\* second the main function, two strings and two userdata types
C22_Witness ==
    /\ last.op = "finalize" /\ fault = "none"
    /\ Len(functions) = 2 /\ functions[1].data # functions[2].data
    /\ mainFunction = 1
    /\ Cardinality(DOMAIN stringTable) = 2 /\ Len(userdataTypes) = 2
    /\ Len(bytecode) = 3 + 4 + 2 + 2 + Len(functions[1].data) + Len(functions[2].data) + 1

\* the entries of the type mapping of a blob: the items of the mapping but the
\* byte 0 that ends it
TypeEntries(blob) ==
    {blob[k].b : k \in {j \in 1..Len(blob) : blob[j].part = "types" /\ blob[j].b # <<0>>}}

C24_ErrorMarker ==
    /\ last.op = "getError" =>
          /\ Len(last.ret) = 2
          /\ last.ret[1].b = <<0>>
          /\ last.ret[2].b = <<>> /\ last.ret[2].sym = last.args[1]
    /\ Len(bytecode) > 0 => (Len(bytecode[1].b) = 1 /\ bytecode[1].b[1] # 0)

\* getError has returned the blob of a message of one character after finalize
\* wrote the blob of a unit
C24_Witness ==
    /\ last.op = "getError" /\ last.args = <<"x">> /\ Len(last.ret) = 2
    /\ fault = "none" /\ Len(bytecode) > 0 /\ Len(functions) > 0

\* the unsigned value whose 7-bit groups, lowest first, are the low bits of the
\* bytes b[i..], as the number with the same 32 bits; group 5 holds the bits 28..31
RECURSIVE VarIntDecoded(_, _)
VarIntDecoded(b, i) ==
    IF i > Len(b) THEN 0
    ELSE IF i = 5
    THEN LET g == b[i] % 16 IN (IF g >= 8 THEN g - 16 ELSE g) * 268435456
    ELSE (b[i] % 128) * 2^(7 * (i - 1)) + VarIntDecoded(b, i + 1)

\* C25: writeVarInt writes 1 to 5 bytes, every byte but the last with the high bit
\* set and the last with the high bit clear; the 7-bit groups, the least
\* significant first, add up to the value; 0 is written as the single byte 0.
C25_VarInt ==
    last.op = "writeVarInt" =>
        LET b == last.ret
            value == last.args[1]
        IN  /\ Len(b) \in 1..5
            /\ \A i \in 1..(Len(b) - 1) : b[i] \in 128..255
            /\ b[Len(b)] \in 0..127
            /\ VarIntDecoded(b, 1) = value
            /\ value = 0 => b = <<0>>

\* 2^32 - 1 has been written as five bytes, the last one 15
C25_Witness ==
    /\ last.op = "writeVarInt" /\ last.args = <<-1>>
    /\ last.ret = <<255, 255, 255, 255, 15>>

\* the shapes a and b have the same length and the same keys in the same order
SameKeys(a, b) ==
    a.length = b.length /\ SubSeq(a.keys, 1, a.length) = SubSeq(b.keys, 1, b.length)

\* the indices of the table constants of the pool cs
TableConstants(cs) ==
    {p \in 0..(PoolSize(cs) - 1) : ConstantAt(cs, p).type = "Table"}

\* C26: a call of addConstantTable that succeeds returns the index of an earlier
\* table constant exactly when that constant's shape has the same length and the
\* same keys in the same order; for a shape no earlier constant has, a shape with
\* the same keys in another order included, it appends one constant and one
\* table shape; the constant returned refers to a shape with the keys of the
\* call, and the constants and shapes that were there are unchanged.
C26_ShapeIdentity ==
    [][(last'.op = "addConstantTable" /\ last'.ret >= 0) =>
          LET shape == last'.args[1]
              ret == last'.ret
              known == {p \in TableConstants(constants) :
                           SameKeys(tableShapes[ConstantAt(constants, p).value + 1], shape)}
          IN  /\ \A p \in TableConstants(constants) : ret = p <=> p \in known
              /\ known = {} =>
                    /\ ret = PoolSize(constants)
                    /\ PoolSize(constants') = PoolSize(constants) + 1
                    /\ tableShapes' = Append(tableShapes, shape)
              /\ known # {} => constants' = constants /\ tableShapes' = tableShapes
              /\ ConstantAt(constants', ret).type = "Table"
              /\ SameKeys(tableShapes'[ConstantAt(constants', ret).value + 1], shape)
              /\ \A p \in 0..(PoolSize(constants) - 1) :
                    ConstantAt(constants', p) = ConstantAt(constants, p)]_vars

\* after nil, the pool holds the shape with the keys 0, 1 and the shape with the
\* keys 1, 0 as two constants, and the first of them has been returned again
C26_Witness ==
    /\ last.op = "addConstantTable" /\ last.ret = 1
    /\ last.args[1] = [keys |-> <<0, 1>>, length |-> 2]
    /\ PoolSize(constants) >= 3 /\ Len(tableShapes) >= 2
    /\ ConstantAt(constants, 1) = Constant("Table", 0)
    /\ ConstantAt(constants, 2) = Constant("Table", 1)
    /\ tableShapes[2] = [keys |-> <<1, 0>>, length |-> 2]

\* the position of the id fid in the child list ps, -1 when it is not there
ChildIndex(ps, fid) ==
    LET in == {j \in 1..Len(ps) : fid >= ps[j].fid /\ fid < ps[j].fid + ps[j].n}
    IN  IF in = {} THEN -1
        ELSE LET j == CHOOSE j \in in : TRUE
             IN  ChildCount(SubSeq(ps, 1, j - 1)) + (fid - ps[j].fid)

\* C27: addChildFunction returns the index of the id in the child list when it is
\* there and then changes nothing; for a new id it returns the size of the list
\* and appends the id, so new ids get 0, 1, 2, ...; for a new id and a list of
\* 2^15 entries it returns -1 and leaves the list and its map unchanged.  The
\* list never holds more than 2^15 entries.
C27_ChildList ==
    /\ [](ChildCount(protos) <= kMaxClosureCount)
    /\ [][last'.op = "addChildFunction" =>
            LET fid == last'.args[1]
                size == ChildCount(protos)
                at == ChildIndex(protos, fid)
            IN  /\ at >= 0 =>
                      /\ last'.ret = at
                      /\ protos' = protos /\ protoMap' = protoMap
                /\ (at < 0 /\ size < kMaxClosureCount) =>
                      /\ last'.ret = size
                      /\ ChildCount(protos') = size + 1
                      /\ ChildIndex(protos', fid) = size
                      /\ SubSeq(protos', 1, Len(protos)) = protos
                /\ (at < 0 /\ size >= kMaxClosureCount) =>
                      /\ last'.ret = -1
                      /\ protos' = protos /\ protoMap' = protoMap]_vars

\* a new id has been refused by a child list of 2^15 entries
C27_Witness ==
    /\ last.op = "addChildFunction" /\ last.ret = -1
    /\ ChildCount(protos) = kMaxClosureCount
    /\ ChildIndex(protos, last.args[1]) < 0

C29_FoldSkipped ==
    [][(last'.op = "foldJumps" /\ hasLongJumps) =>
          /\ insns' = insns /\ jumps' = jumps /\ lines' = lines
          /\ hasLongJumps' /\ fault' = "none"]_vars

\* foldJumps has run on a function with a long jump and has left an unconditional
\* JUMP whose target is a RETURN
C29_Witness ==
    /\ pc = "folded" /\ fault = "none" /\ hasLongJumps
    /\ \E k \in DOMAIN jumps :
          /\ jumps[k].target >= 0 /\ jumps[k].target < Size(insns)
          /\ INSN_OP(At(insns, jumps[k].source)) = "JUMP"
          /\ INSN_OP(At(insns, jumps[k].target)) = "RETURN"

\* every window of span instructions that starts at a multiple of span has
\* max(line) - min(line) <= 255
WindowsFit(ls, span) ==
    \A i, j \in 1..Len(ls) :
        (i - 1) \div span = (j - 1) \div span => ls[i] - ls[j] <= 255

\* C30: the span of the line table of a function with lines is a power of two
\* 2^logspan with logspan <= 24, every aligned window of that many instructions
\* has max(line) - min(line) <= 255, and below 2^24 no window of twice that
\* many has: the span is the largest one that fits, and it is 1 only when two
\* instructions of an aligned pair differ by more than 255.
C30_LargestSpan ==
    [][(last'.op = "endFunction" /\ Size(lines) > 0 /\ HasLines(lines) /\ fault' = "none") =>
          LET logspan == LinesOf(functions'[currentFunction + 1].data)[2]
              ls == Flat(lines)
          IN  /\ logspan \in 0..24
              /\ WindowsFit(ls, 2^logspan)
              /\ logspan < 24 => ~WindowsFit(ls, 2 * 2^logspan)
              /\ logspan = 0 =>
                    \E i \in 1..(Len(ls) - 1) :
                        /\ i % 2 = 1
                        /\ (ls[i] - ls[i + 1] > 255 \/ ls[i + 1] - ls[i] > 255)]_vars

\* a line table with spans of four instructions has been written for five
\* instructions: the fifth line is more than 255 away from one of the first four
C30_Witness ==
    /\ last.op = "endFunction" /\ fault = "none" /\ Len(functions) = 1
    /\ LET b == LinesOf(functions[1].data)
       IN  b[1] = 1 /\ b[2] = 2 /\ Len(b) = 2 + 5 + 8

\* the positions the loop "for (i = 0; i < insns.size(); i += getOpLength(op))" stops
\* at, from position i - 1 of the words ws on
RECURSIVE InsnStarts(_, _)
InsnStarts(ws, i) ==
    IF i > Len(ws) THEN {}
    ELSE {i - 1} \cup InsnStarts(ws, i + getOpLength(INSN_OP(ws[i])))

\* the words that branch, and the operand a branch adds to the position after it
IsBranch(w) ==
    isJumpD(INSN_OP(w)) \/ INSN_OP(w) = "JUMPX" \/ isSkipC(INSN_OP(w)) \/ isFastCall(INSN_OP(w))

BranchOperand(w) ==
    IF isJumpD(INSN_OP(w)) THEN INSN_D(w)
    ELSE IF INSN_OP(w) = "JUMPX" THEN INSN_E(w)
    ELSE INSN_C(w)

\* every branch of the words ws leads to the first word of an instruction of ws
BranchesResolve(ws) ==
    \A i \in InsnStarts(ws, 1) :
        IsBranch(ws[i + 1]) => (i + 1 + BranchOperand(ws[i + 1])) \in InsnStarts(ws, 1)

\* C31: when endFunction passes validation, every branch operand of the function (D of
\* the jumps, E of JUMPX, C of LOADB and of the fast calls) leads to a position inside
\* insns that is the first word of an instruction; a function with a branch to an
\* auxiliary word, or to a position at or past the end, fails an assertion.
C31_BranchTargets ==
    [][(last'.op = "endFunction" /\ currentFunction # NoFunction) =>
          /\ fault' = "none" => BranchesResolve(Flat(insns))
          /\ ~BranchesResolve(Flat(insns)) => fault' # "none"]_vars

\* a function with a jump, a skip and a fast call has passed validation and is written
C31_Witness ==
    /\ last.op = "endFunction" /\ fault = "none" /\ Len(functions) = 1
    /\ LET code == Flat(CodeOf(functions[1].data))
       IN  /\ \E i \in 1..Len(code) : isJumpD(INSN_OP(code[i]))
           /\ \E i \in 1..Len(code) : isFastCall(INSN_OP(code[i]))
           /\ \E i \in 1..Len(code) : getOpLength(INSN_OP(code[i])) = 2

\* the instructions that leave an open number of values, and those that take one
IsProducer(w) ==
    \/ INSN_OP(w) = "CALL" /\ w.c = 0
    \/ INSN_OP(w) = "GETVARARGS" /\ w.b = 0

IsConsumer(w) ==
    \/ INSN_OP(w) = "CALL" /\ w.b = 0
    \/ INSN_OP(w) = "RETURN" /\ w.b = 0
    \/ INSN_OP(w) = "SETLIST" /\ w.c = 0

\* position i of the words ws is where a jump or a skip of ws leads
IsJumpTarget(ws, i) ==
    \E j \in InsnStarts(ws, 1) :
        LET w == ws[j + 1]
        IN  \/ (isJumpD(INSN_OP(w)) \/ INSN_OP(w) = "JUMPX") /\ j + 1 + BranchOperand(w) = i
            \/ isSkipC(INSN_OP(w)) /\ w.c # 0 /\ j + 1 + w.c = i

\* the opcodes that leave the count of values of an open sequence as it is
Whitelist ==
    {"CLOSEUPVALS", "NAMECALL", "GETIMPORT", "MOVE", "GETUPVAL", "GETGLOBAL", "GETTABLEKS",
     "COVERAGE"}

\* the FASTCALL at position i is linked to a CALL that is a consumer
LinkedToConsumer(ws, i) ==
    /\ INSN_OP(ws[i + 1]) = "FASTCALL"
    /\ i + 1 + ws[i + 1].c < Len(ws)
    /\ INSN_OP(ws[i + 2 + ws[i + 1].c]) = "CALL"
    /\ ws[i + 2 + ws[i + 1].c].b = 0

\* the scan of the instructions of ws from position i on, open telling that a
\* sequence is open: a consumer is met inside a sequence and closes it, a producer is
\* met outside (a CALL that is both closes one and opens the next) and opens one, what
\* else is met inside a sequence is neutral or a linked FASTCALL, nothing met inside is
\* a jump target, and no sequence is open at the end
RECURSIVE SequencesPair(_, _, _)
SequencesPair(ws, i, open) ==
    IF i >= Len(ws) THEN ~open
    ELSE LET w == ws[i + 1]
             closed == IF IsConsumer(w) THEN FALSE ELSE open
         IN  /\ open => ~IsJumpTarget(ws, i)
             /\ IsConsumer(w) => open
             /\ IsProducer(w) => ~closed
             /\ (open /\ ~IsConsumer(w)) => (INSN_OP(w) \in Whitelist \/ LinkedToConsumer(ws, i))
             /\ SequencesPair(ws, i + getOpLength(INSN_OP(w)), IsProducer(w) \/ closed)

\* C32: validateVariadic accepts the instructions of a function only if, in their
\* order, every producer (CALL with C = 0, GETVARARGS with B = 0) is outside a sequence
\* and opens one, every consumer (CALL with B = 0, RETURN with B = 0, SETLIST with
\* C = 0) is inside one and closes it, between the two only neutral opcodes or a
\* FASTCALL linked to a consumer CALL appear, no instruction after the producer up to
\* the consumer is a jump target, and no sequence is open at the end; endFunction
\* closes no function that validateVariadic does not accept.
C32_VariadicSequences ==
    [][(last'.op = "endFunction" /\ currentFunction # NoFunction) =>
          /\ validateVariadic = "none" => SequencesPair(Flat(insns), 0, FALSE)
          /\ fault' = "none" => validateVariadic = "none"]_vars

\* a function is written in which GETVARARGS opens a sequence, a neutral instruction
\* follows and a CALL closes it
C32_Witness ==
    /\ last.op = "endFunction" /\ fault = "none" /\ Len(functions) = 1
    /\ LET code == Flat(CodeOf(functions[1].data))
       IN  \E i \in 1..(Len(code) - 2) :
              /\ IsProducer(code[i]) /\ INSN_OP(code[i]) = "GETVARARGS"
              /\ INSN_OP(code[i + 1]) \in Whitelist
              /\ IsConsumer(code[i + 2]) /\ INSN_OP(code[i + 2]) = "CALL"

\* the operands of the word w that name a register
RegisterOperands(w) ==
    IF INSN_OP(w) \in {"MOVE", "ADDK", "SUBK", "MULK", "DIVK", "IDIVK", "MODK", "POWK"}
    THEN {w.a, w.b}
    ELSE IF INSN_OP(w) \in {"SUBRK", "DIVRK"} THEN {w.a, w.c}
    ELSE IF INSN_OP(w) \in {"CALL", "GETUPVAL", "SETUPVAL", "LOADK", "GETIMPORT", "DUPTABLE",
                            "DUPCLOSURE", "GETGLOBAL", "SETGLOBAL", "JUMPXEQKN", "JUMPXEQKS"}
    THEN {w.a}
    ELSE {}

\* the ranges of registers of the word w, by the position after their last register
RegisterRangeEnds(w) ==
    IF INSN_OP(w) = "CALL" THEN {w.a + 1 + (w.b - 1), w.a + (w.c - 1)}
    ELSE IF INSN_OP(w) = "RETURN" THEN {w.a + (w.b - 1)}
    ELSE {}

\* the operands of the word w that name an upvalue
UpvalueOperands(w) == IF INSN_OP(w) \in {"GETUPVAL", "SETUPVAL"} THEN {w.b} ELSE {}

\* the type of constant the opcode expects, "" for any type
ExpectedType(op) ==
    IF op \in {"ADDK", "SUBK", "MULK", "DIVK", "IDIVK", "MODK", "POWK", "SUBRK", "DIVRK",
               "JUMPXEQKN"} THEN "Number"
    ELSE IF op \in {"GETGLOBAL", "SETGLOBAL", "GETTABLEKS", "SETTABLEKS", "NAMECALL",
                    "JUMPXEQKS"} THEN "String"
    ELSE IF op = "GETIMPORT" THEN "Import"
    ELSE IF op = "DUPTABLE" THEN "Table"
    ELSE IF op = "DUPCLOSURE" THEN "Closure"
    ELSE ""

\* the operands of the word w, with the word aux after it, that name a constant
ConstantOperands(w, aux) ==
    IF INSN_OP(w) \in {"ADDK", "SUBK", "MULK", "DIVK", "IDIVK", "MODK", "POWK"} THEN {w.c}
    ELSE IF INSN_OP(w) \in {"SUBRK", "DIVRK"} THEN {w.b}
    ELSE IF INSN_OP(w) \in {"LOADK", "GETIMPORT", "DUPTABLE", "DUPCLOSURE"} THEN {INSN_D(w)}
    ELSE IF INSN_OP(w) \in {"GETGLOBAL", "SETGLOBAL"} THEN {AuxValue(aux)}
    ELSE IF INSN_OP(w) \in {"JUMPXEQKN", "JUMPXEQKS"} THEN {AuxLow24(aux)}
    ELSE {}

\* the operands of every instruction of the words ws are in range and of the type
\* expected, for the stack size, the upvalue count and the pool given
OperandsInRange(ws, maxstacksize, numupvalues, pool) ==
    \A i \in InsnStarts(ws, 1) :
        LET w == ws[i + 1]
        IN  /\ \A r \in RegisterOperands(w) : r < maxstacksize
            /\ \A e \in RegisterRangeEnds(w) : e <= maxstacksize
            /\ \A u \in UpvalueOperands(w) : u < numupvalues
            /\ \A c \in ConstantOperands(w, ws[i + 2]) :
                  /\ c >= 0 /\ c < PoolSize(pool)
                  /\ ExpectedType(INSN_OP(w)) # "" =>
                        ConstantAt(pool, c).type = ExpectedType(INSN_OP(w))

ChainId(ids, k) == IF k <= Len(ids) THEN ids[k] ELSE -1

\* C34: decomposeImportId applied to the value getImportId returned on a chain of one,
\* two or three ids of 0..1023 returns the length of the chain as the count, the ids
\* of the chain in id0, id1, id2 and -1 in every position beyond the count; and two
\* calls of getImportId on different chains return different values.
C34_ImportIdRoundTrip ==
    [][/\ last'.op = "decomposeImportId" =>
            /\ last'.ret.count = Len(last.args)
            /\ last'.ret.id0 = ChainId(last.args, 1)
            /\ last'.ret.id1 = ChainId(last.args, 2)
            /\ last'.ret.id2 = ChainId(last.args, 3)
       /\ last.op = "getImportId" /\ last'.op = "getImportId" /\ last.args # last'.args
            => last.ret # last'.ret]_vars

\* a chain of three ids with every bit of its last id set, decomposed
C34_Witness ==
    /\ last.op = "decomposeImportId"
    /\ last.ret.count = 3
    /\ last.ret.id0 = 512
    /\ last.ret.id1 = 0
    /\ last.ret.id2 = 1023

\* C35: on a byte string shorter than 32 bytes luaS_hash returns the 32-bit value that
\* getStringHash returned on the same bytes.
C35_HashMatchesVM ==
    [][last'.op = "luaS_hash" /\ Len(last'.args[1]) < 32 => last'.ret = last.ret]_vars

\* both hashes taken of a string of 31 different bytes, the second and third above 127
C35_Witness ==
    /\ last.op = "luaS_hash"
    /\ last.args[1] = HashString(31, 97, 77)
    /\ last.ret = getStringHash(last.args[1])
    /\ last.ret # 31

\* C36: every call of foldJumps ends: a turn of the while loop moves targetLabel to a
\* larger position, the turns taken for one record are at most the number of
\* instructions, and the body of the for loop is always left.
C36_FoldTerminates ==
    /\ [][pc = "folding" /\ pc' = "folding" /\ last'.args[1] = last.args[1]
             => /\ last'.args[2] > last.args[2]
                /\ last'.args[3] = last.args[3] + 1
                /\ last'.args[3] <= Size(insns)]_vars
    /\ (pc = "folding") ~> (pc = "folded")

\* foldJumps has ended on two jumps that jumped to each other: the second one was
\* followed through the first one back to itself
C36_Witness ==
    /\ pc = "folded" /\ fault = "none"
    /\ Size(insns) >= 2
    /\ INSN_OP(At(insns, 0)) = "JUMP" /\ INSN_D(At(insns, 0)) = 0
    /\ INSN_OP(At(insns, 1)) = "JUMP" /\ INSN_D(At(insns, 1)) = -1
    /\ Len(jumps) = 2
    /\ \E k \in 1..2 : jumps[k].source = 0 /\ jumps[k].target = 1
    /\ \E k \in 1..2 : jumps[k].source = 1 /\ jumps[k].target = 1

\* C37: when every recorded offset has a magnitude below 2^23, the offset that
\* expandJumps stores in a JUMPX word, the remapped offset plus 1, fits the signed 24-bit
\* E field: the E field of the word before every expanded jump reads back as
\* remap[target] - remap[source].
C37_Original ==
    (pc = "expanded" /\ fault = "none" /\ hasLongJumps
        /\ \A k \in DOMAIN jumps : Abs(jumps[k].target - jumps[k].source - 1) < kMaxJumpDistance) =>
        \A k \in DOMAIN jumps :
            IsLongJump(jumps[k]) =>
                \A i \in {0, jumps[k].n - 1} :
                    LET newoffset == NewOffset(jumps, jumps[k].source + i, jumps[k].target + i)
                    IN  /\ -8388608 <= newoffset + 1 /\ newoffset + 1 <= 8388607
                        /\ INSN_E(At(insns, Remap(jumps, jumps[k].source + i) - 1))
                               = newoffset + 1

\* C38: endFunction on a function in which no instruction was emitted does not reach
\* writeLineInfo, whose first step requires a non-empty line array, and serializes the
\* function with the flag 0 of a record without line info.
C38_Original ==
    [][(last'.op = "endFunction" /\ currentFunction # NoFunction /\ Size(insns) = 0) =>
           /\ fault' # "writeLineInfo: !lines.empty()"
           /\ \E j \in DOMAIN functions'[CurrentSlot].data :
                 functions'[CurrentSlot].data[j] = Bytes("lines", writeByte(0))]_vars

\* the first, second and last position of every run of rs
EdgePositions(rs) ==
    UNION {{Base(rs, i), Base(rs, i) + 1, Base(rs, i) + RunLen(rs[i]) - 1} : i \in 1..Len(rs)}
    \cap 0..(Size(rs) - 1)

\* position i is the source of one of the records js, of one with a long offset
IsSource(js, i) ==
    \E k \in 1..Len(js) : js[k].source <= i /\ i < js[k].source + js[k].n
IsLongSource(js, i) ==
    \E k \in 1..Len(js) : IsLongJump(js[k]) /\ js[k].source <= i /\ i < js[k].source + js[k].n

\* the jumps of the records of js from the k-th on that have a long offset
RECURSIVE ExpandedCount(_, _)
ExpandedCount(js, k) ==
    IF k > Len(js) THEN 0
    ELSE (IF IsLongJump(js[k]) THEN js[k].n ELSE 0) + ExpandedCount(js, k + 1)

\* C39: expandJumps keeps the words in their order: remap is strictly increasing, the
\* word at remap[i] is the old word at i, with another D field at most when i is the
\* source of a recorded jump, the words added are JUMP +1 and JUMPX right before every
\* expanded jump and nothing anywhere else, and the new length is the old one plus
\* twice the number of expanded jumps (stated for the edges of every run of equal
\* words).
C39_ExpandKeepsOrder ==
    [][(last'.op = "expandJumps" /\ fault' = "none") =>
          IF ~hasLongJumps THEN insns' = insns
          ELSE /\ Size(insns') = Size(insns) + 2 * ExpandedCount(jumps', 1)
               /\ \A i \in EdgePositions(insns) :
                     /\ i + 1 < Size(insns) => Remap(jumps', i) < Remap(jumps', i + 1)
                     /\ IF IsSource(jumps', i)
                        THEN At(insns', Remap(jumps', i)).op = At(insns, i).op
                             /\ At(insns', Remap(jumps', i)).a = At(insns, i).a
                        ELSE At(insns', Remap(jumps', i)) = At(insns, i)
                     /\ IF IsLongSource(jumps', i)
                        THEN /\ Remap(jumps', i)
                                    = (IF i = 0 THEN 0 ELSE Remap(jumps', i - 1) + 1) + 2
                             /\ At(insns', Remap(jumps', i) - 2) = JumpPlusOne
                             /\ INSN_OP(At(insns', Remap(jumps', i) - 1)) = "JUMPX"
                        ELSE Remap(jumps', i) = (IF i = 0 THEN 0 ELSE Remap(jumps', i - 1) + 1)]_vars

\* expandJumps has expanded a jump that is not the first word, and words follow it
C39_Witness ==
    /\ last.op = "expandJumps" /\ fault = "none" /\ hasLongJumps
    /\ \E k \in 1..Len(jumps) :
          /\ IsLongJump(jumps[k])
          /\ jumps[k].source > 0
          /\ At(insns, Remap(jumps, jumps[k].source) - 2) = JumpPlusOne
          /\ Size(insns) > Remap(jumps, jumps[k].source) + 1

====
